---- MODULE Spec2Model ----
(***************************************************************************)
(* The cluster metadata catalog (type Data of package meta): the state     *)
(* machine that the consensus log drives.  Every method of Data is an      *)
(* operator from a catalog value to a result [d, err]; every command is    *)
(* an action that replaces the variable data by the result.                *)
(***************************************************************************)
EXTENDS Integers, Sequences, FiniteSets, TLC

VARIABLES
    data,      \* the live catalog (a value of type Data)
    last,      \* the command applied last and what it returned
    snap,      \* the snapshots readers took with Clone: none, or one
    policy     \* config.GetHaPolicy(): fixed at start-up

vars == <<data, last, snap, policy>>

----------------------------------------------------------------------------
(* Bounds of the model *)

MaxDataNodes == 3
MaxMetaNodes == 2
MaxConn == 4
MaxVer == 3
MaxIndex == 6
MaxGroupID == 3

----------------------------------------------------------------------------
(* Values *)

Hosts == {"h1", "h2", "h3"}
DbNames == {"db0"}
NodeWriter == "writer"
NodeReader == "reader"
StatusNone == "none"
StatusAlive == "alive"
StatusFailed == "failed"
Offline == 0
Online == 1
Normal == "normal"
Slave == "slave"
Health == "health"
SubHealth == "sub-health"
WriteAvailableFirst == "write-available-first"
SharedStorage == "shared-storage"
Replication == "replication"
Nil == "nil"
NilRp == [nil |-> TRUE]
NoSnap == <<>>
OK == "ok"
Panic == "panic"

\* A uint32 is held as a signed representative: the model's lengths and
\* counts are far below 2^31, so the only wrap that can happen is a
\* subtraction below zero, whose result (2^32 - k) is kept as -k.  As an
\* index it is beyond every slice.
OutOfRange(i, n) == i < 0 \/ i >= n

----------------------------------------------------------------------------
(* Helpers: Go slices are 0-based, sequences 1-based *)

MaxOf(S) == CHOOSE x \in S : \A y \in S : y <= x

MinOf(S) == CHOOSE x \in S : \A y \in S : x <= y

Range(s) == {s[i] : i \in DOMAIN s}

EmptyMap == [k \in {} |-> Nil]

MapPut(m, k, v) == [x \in (DOMAIN m) \cup {k} |-> IF x = k THEN v ELSE m[x]]

MapDel(m, k) == [x \in (DOMAIN m) \ {k} |-> m[x]]

Has(m, k) == k \in DOMAIN m


MapSeq(m, k) == IF Has(m, k) THEN m[k] ELSE <<>>

R(d, err) == [d |-> d, err |-> err]

\* sort.Sort on a short slice is an insertion sort: an element moves left
\* while it is less than its predecessor, so equal keys keep their order.
InsertPair(sorted, x) ==
    LET ps == {j \in 1..Len(sorted) : sorted[j][1] <= x[1]}
        p == IF ps = {} THEN 0 ELSE MaxOf(ps)
    IN SubSeq(sorted, 1, p) \o <<x>> \o SubSeq(sorted, p + 1, Len(sorted))

RECURSIVE SortPairs(_)
SortPairs(s) ==
    IF Len(s) = 0 THEN <<>>
    ELSE InsertPair(SortPairs(SubSeq(s, 1, Len(s) - 1)), s[Len(s)])

Unpair(s) == [i \in 1..Len(s) |-> s[i][2]]

SortByID(nodes) ==
    Unpair(SortPairs([i \in 1..Len(nodes) |-> <<nodes[i].ID, nodes[i]>>]))

SortByStartTime(groups) ==
    Unpair(SortPairs([i \in 1..Len(groups) |-> <<groups[i].StartTime, groups[i]>>]))

\* Go evaluates an expression once and names its value: F applied to the
\* value of e
Let(e, F(_)) == CHOOSE y \in {F(v) : v \in {e}} : TRUE

\* the first index of s whose element satisfies the test, 0 when none does
FirstIdx(s, Test(_)) ==
    LET hit == {i \in 1..Len(s) : Test(s[i])}
    IN IF hit = {} THEN 0 ELSE MinOf(hit)

----------------------------------------------------------------------------
(* type Data *)

NewData(ptNumPerNode, expandShards) ==
    [ ClusterPtNum |-> 0, PtNumPerNode |-> ptNumPerNode,
      MetaNodes |-> <<>>, DataNodes |-> <<>>,
      PtView |-> EmptyMap, ReplicaGroups |-> EmptyMap, ReplicaGroupsNil |-> TRUE,
      Databases |-> EmptyMap,
      Users |-> <<>>, AdminUserExists |-> FALSE,
      MigrateEvents |-> EmptyMap,
      TakeOverEnabled |-> FALSE, ExpandShardsEnable |-> expandShards,
      MaxNodeID |-> 0, MaxShardGroupID |-> 0, MaxShardID |-> 0,
      MaxIndexGroupID |-> 0, MaxIndexID |-> 0, MaxEventOpId |-> 0,
      MaxConnID |-> 0 ]

IsNodeWriter(role) == role # NodeReader

DBReplicaN(d, db) ==
    LET replicaN == d.Databases[db].ReplicaN
    IN IF replicaN = 0 THEN 1 ELSE replicaN

DBRepGroups(d, db) == MapSeq(d.ReplicaGroups, db)

DBPtView(d, db) == MapSeq(d.PtView, db)

GetEffectivePtNum(d, db) ==
    LET replicaN == DBReplicaN(d, db)
    IN IF replicaN = 1 THEN d.ClusterPtNum
       ELSE replicaN * Len(DBRepGroups(d, db))

GetWriteNode(d) == SelectSeq(d.DataNodes, LAMBDA n : IsNodeWriter(n.Role))

GetWriteNodeNum(d) == Len(GetWriteNode(d))

GetAliveWriteNode(d) ==
    SelectSeq(d.DataNodes,
              LAMBDA n : IsNodeWriter(n.Role) /\ n.Status = StatusAlive
                         /\ n.SegregateStatus = Normal)

----------------------------------------------------------------------------
(* Pt-view engine *)

ZeroPt == [PtId |-> 0, Owner |-> 0, Status |-> Offline, Ver |-> 0, RGID |-> 0]

\* copy(newPtView, dbPtView) into make([]PtInfo, n)
Resize(view, n) ==
    [i \in 1..n |-> IF i <= Len(view) THEN view[i] ELSE ZeroPt]

updatePtStatus(d, db, ptId, nodeId, status) ==
    LET ptNum == d.ClusterPtNum
        v0 == IF Has(d.PtView, db) THEN d.PtView[db] ELSE Resize(<<>>, ptNum)
        v1 == IF ptId >= Len(v0) THEN Resize(v0, ptNum) ELSE v0
    IN IF ptId >= Len(v1) THEN R(d, Panic)
       ELSE R([d EXCEPT !.PtView = MapPut(d.PtView, db,
                  [v1 EXCEPT ![ptId + 1] =
                      [@ EXCEPT !.Owner = nodeId, !.Status = status, !.PtId = ptId,
                                !.Ver = IF @ = 0 THEN 1 ELSE @]])],
              OK)

\* for ptId := from; ptId < to; ptId++ { updatePtStatus(db, ptId, owner(ptId), Offline) }
RECURSIVE AssignPts(_, _, _, _, _)
AssignPts(d, db, from, to, owners) ==
    IF from >= to THEN R(d, OK)
    ELSE LET r == updatePtStatus(d, db, from,
                                 owners[(from % Len(owners)) + 1].ID, Offline)
         IN IF r.err # OK THEN r ELSE AssignPts(r.d, db, from + 1, to, owners)

assignPtForWAF(d, name) ==
    LET writeNodes == GetWriteNode(d)
    IN IF Len(writeNodes) = 0 THEN R(d, "DataNoAlive")
       ELSE AssignPts(d, name, 0, d.ClusterPtNum, writeNodes)

assignPtForSS(d, name) ==
    LET aliveDataNodes == GetAliveWriteNode(d)
    IN IF Len(aliveDataNodes) = 0 THEN R(d, "DataNoAlive")
       ELSE AssignPts(d, name, 0, d.ClusterPtNum, aliveDataNodes)

dbPtAssignerAnyWriter(pol, d, name) == assignPtForWAF(d, name)
dbPtAssigner(pol, d, name) ==
    IF pol = SharedStorage THEN assignPtForSS(d, name) ELSE assignPtForWAF(d, name)

CreateDBPtView(pol, d, name) ==
    IF Has(d.PtView, name) THEN R(d, OK) ELSE dbPtAssigner(pol, d, name)

initDataNodePtView(d, ptNum) ==
    LET newPtNum == d.PtNumPerNode * GetWriteNodeNum(d)
    IN IF ptNum < newPtNum THEN [d EXCEPT !.ClusterPtNum = newPtNum] ELSE d

----------------------------------------------------------------------------
(* Replica-group engine *)

ZeroRG == [ID |-> 0, MasterPtID |-> 0, Peers |-> <<>>, Status |-> Health, Term |-> 0]

expandRepGroups(d, db, repNum) ==
    [d EXCEPT !.ReplicaGroupsNil = FALSE,
              !.ReplicaGroups = MapPut(d.ReplicaGroups, db,
                  DBRepGroups(d, db) \o [i \in 1..repNum |-> ZeroRG])]

\* One replica group: the body of the loop over k.  st = [pv, rgs, err].
RepGroupStep(st, replicaN, ptNumPerNode, repGroupId, ptIdx) ==
    LET slaves == [i \in 1..(replicaN - 1) |-> ptIdx + ptNumPerNode * i]
        touched == Range(slaves) \cup {ptIdx}
    IN IF (\E p \in touched : OutOfRange(p, Len(st.pv)))
          \/ OutOfRange(repGroupId, Len(st.rgs))
       THEN [st EXCEPT !.err = Panic]
       ELSE [st EXCEPT
               !.pv = [i \in 1..Len(st.pv) |->
                         IF (i - 1) \in touched
                         THEN [st.pv[i] EXCEPT !.RGID = repGroupId]
                         ELSE st.pv[i]],
               !.rgs[repGroupId + 1] =
                   [ID |-> repGroupId, MasterPtID |-> ptIdx,
                    Peers |-> [i \in 1..(replicaN - 1) |->
                                  [ID |-> slaves[i], PtRole |-> Slave]],
                    Status |-> Health, Term |-> 0]]

\* for repGroupId, ptIdx := repStart, ptStart; repGroupId < repEnd; {
\*     for k := 0; k < ptNumPerNode; k++ { ...; repGroupId++ }
\*     ptIdx += ptNumPerNode * replicaN }
RECURSIVE RepLoop(_, _, _, _, _, _, _)
RepLoop(st, replicaN, ptNumPerNode, repEnd, repGroupId, ptIdx, k) ==
    IF st.err # OK THEN st
    ELSE IF k < ptNumPerNode
    THEN RepLoop(RepGroupStep(st, replicaN, ptNumPerNode, repGroupId, ptIdx),
                 replicaN, ptNumPerNode, repEnd, repGroupId + 1, ptIdx, k + 1)
    ELSE IF repGroupId < repEnd
    THEN RepLoop(st, replicaN, ptNumPerNode, repEnd, repGroupId,
                 ptIdx + ptNumPerNode * replicaN, 0)
    ELSE st

createReplicationInner(d, db, replicaN, repStart, repEnd, ptStart) ==
    LET d1 == expandRepGroups(d, db, repEnd - repStart)
        st0 == [pv |-> DBPtView(d1, db), rgs |-> DBRepGroups(d1, db), err |-> OK]
        st == IF repStart < repEnd
              THEN RepLoop(st0, replicaN, d.PtNumPerNode, repEnd, repStart, ptStart, 0)
              ELSE st0
    IN IF st.err # OK THEN R(d, Panic)
       ELSE R([d1 EXCEPT
                 !.PtView = IF Has(d1.PtView, db) THEN MapPut(d1.PtView, db, st.pv)
                            ELSE d1.PtView,
                 !.ReplicaGroups = MapPut(d1.ReplicaGroups, db, st.rgs)],
              OK)

createReplicationImp(d, db, replicaN) ==
    LET ptNum == Len(DBPtView(d, db))
        nodeNum == ptNum \div d.PtNumPerNode
    IN IF nodeNum % replicaN # 0 THEN R(d, "ReplicaNodeNumIncorrect")
       ELSE createReplicationInner(d, db, replicaN, 0, ptNum \div replicaN, 0)

CreateReplication(d, db, replicaN) ==
    IF replicaN <= 1 THEN R(d, OK) ELSE createReplicationImp(d, db, replicaN)

RECURSIVE ExpandPts(_, _, _, _, _)
ExpandPts(d, db, from, to, nodeId) ==
    IF from >= to THEN R(d, OK)
    ELSE LET r == updatePtStatus(d, db, from, nodeId, Offline)
         IN IF r.err # OK THEN r ELSE ExpandPts(r.d, db, from + 1, to, nodeId)

expandDBPtViewNone(d, database, ptNum, newNodeID) == R(d, OK)

expandDBPtView(d, database, ptNum, newNodeID) ==
    LET oldDBPtNums == Len(DBPtView(d, database))
        replicaN == DBReplicaN(d, database)
        dataNodeNum == Len(d.DataNodes)
        r1 == ExpandPts(d, database, oldDBPtNums, ptNum, newNodeID)
    IN IF ptNum = oldDBPtNums THEN R(d, OK)
       ELSE IF ptNum < oldDBPtNums THEN R(d, Panic)
       ELSE IF r1.err # OK THEN r1
       ELSE IF replicaN > 1 /\ dataNodeNum % replicaN = 0
       THEN LET oldRepGroupNum == Len(DBRepGroups(r1.d, database))
                oldPtNum == Len(DBPtView(r1.d, database)) - replicaN * d.PtNumPerNode
            IN createReplicationInner(r1.d, database, replicaN, oldRepGroupNum,
                                      oldRepGroupNum + d.PtNumPerNode, oldPtNum)
       ELSE r1

----------------------------------------------------------------------------
(* Node registry *)

NewDataNode(id, host, tcpHost, role, connID) ==
    [ID |-> id, Host |-> host, TCPHost |-> tcpHost, Role |-> role,
     Status |-> StatusNone, SegregateStatus |-> Normal,
     ConnID |-> connID, AliveConnID |-> 0, LTime |-> 0, GossipAddr |-> ""]

NewMetaNode(id, host, tcpHost) == [ID |-> id, Host |-> host, TCPHost |-> tcpHost]

DataNodeIdx(d, id) == FirstIdx(d.DataNodes, LAMBDA n : n.ID = id)

\* for db := range data.Databases { data.expandDBPtView(db, ptNum, &dn) }
\* (each call touches the pt-view and the replica groups of its own database only)
RECURSIVE ExpandAllDBs(_, _, _, _)
ExpandAllDBs(d, dbs, ptNum, nodeId) ==
    IF dbs = {} THEN R(d, OK)
    ELSE LET db == CHOOSE x \in dbs : TRUE
             r == expandDBPtView(d, db, ptNum, nodeId)
         IN IF r.err # OK THEN R(d, r.err)
            ELSE ExpandAllDBs(r.d, dbs \ {db}, ptNum, nodeId)

----------------------------------------------------------------------------
(* Database / RP registry: lookups *)

HASH == "hash"
RANGE == "range"
TSSTORE == "tsstore"
COLUMNSTORE == "columnstore"
NoBound == ""

\* a lookup that does not look at the delete mark
GetDatabaseAnyMark(d, name) ==
    IF ~Has(d.Databases, name) THEN "DatabaseNotFound" ELSE OK

GetDatabase(d, name) ==
    IF ~Has(d.Databases, name) THEN "DatabaseNotFound"
    ELSE IF d.Databases[name].MarkDeleted THEN "DatabaseIsBeingDelete"
    ELSE OK

GetRetentionPolicy(dbi, name) ==
    IF ~Has(dbi.RetentionPolicies, name) THEN "RetentionPolicyNotFound"
    ELSE IF dbi.RetentionPolicies[name].MarkDeleted THEN "RpIsBeingDelete"
    ELSE OK

\* the error of data.RetentionPolicy(database, name); OK when it returns the policy
RetentionPolicyErr(d, database, name) ==
    IF GetDatabase(d, database) # OK THEN GetDatabase(d, database)
    ELSE GetRetentionPolicy(d.Databases[database], name)

RP(d, db, rp) == d.Databases[db].RetentionPolicies[rp]

\* influx.GetNameWithVersion(mst, version): the name and the version, joined
GetNameWithVersion(mst, version) == <<mst, version>>

\* no measurement
NoMst == <<>>

SetRP(d, db, rp, rpi) == [d EXCEPT !.Databases[db].RetentionPolicies[rp] = rpi]

----------------------------------------------------------------------------
(* Time ranges.  Timestamps are small naturals, far below MaxNanoTime, so   *)
(* the clamp of an end time to MaxNanoTime + 1 is never taken.              *)

Truncate(t, dur) == t - (t % dur)

\* [StartTime, EndTime) contains t
Contains(g, t) == g.StartTime <= t /\ t < g.EndTime

Overlaps(g, min, max) == g.StartTime <= max /\ g.EndTime > min

Deleted(g) == g.DeletedAt # 0

ShardGroupByTimestampAndEngineType(rpi, timestamp, engineType) ==
    FirstIdx(rpi.ShardGroups,
             LAMBDA sg : ~Deleted(sg) /\ Contains(sg, timestamp)
                         /\ sg.EngineType = engineType)

----------------------------------------------------------------------------
(* Index-group manager *)

NewIndexes(firstID, from, to) ==
    [i \in 1..(to - from) |->
        [ID |-> firstID + i, Owners |-> <<from + i - 1>>, MarkDelete |-> FALSE]]

\* CreateIndexGroup: returns the catalog and the group it created
CreateIndexGroup(d, db, rp, timestamp, engineType, ptNum) ==
    LET rpi == RP(d, db, rp)
        start == Truncate(timestamp, rpi.IndexGroupDuration)
        igi == [ID |-> d.MaxIndexGroupID + 1,
                StartTime |-> start, EndTime |-> start + rpi.IndexGroupDuration,
                EngineType |-> engineType,
                Indexes |-> NewIndexes(d.MaxIndexID, 0, ptNum),
                DeletedAt |-> 0]
        d1 == [d EXCEPT !.MaxIndexGroupID = @ + 1, !.MaxIndexID = @ + ptNum]
    IN [d |-> SetRP(d1, db, rp,
                    [rpi EXCEPT !.IndexGroups = SortByStartTime(Append(@, igi))]),
        igi |-> igi]

createIndexGroupIfNeeded(d, db, rp, timestamp, engineType, ptNum) ==
    LET rpi == RP(d, db, rp)
        igIdx == FirstIdx(rpi.IndexGroups,
                          LAMBDA ig : ig.EngineType = engineType
                                      /\ Contains(ig, timestamp))
    IN IF Len(rpi.IndexGroups) = 0
       THEN CreateIndexGroup(d, db, rp, timestamp, engineType, ptNum)
       ELSE IF igIdx # 0 /\ Len(rpi.IndexGroups[igIdx].Indexes) >= ptNum
       THEN [d |-> d, igi |-> rpi.IndexGroups[igIdx]]
       ELSE CreateIndexGroup(d, db, rp, timestamp, engineType, ptNum)

\* createIndexGroup of ReSharding: the engine type is left at its zero value
createIndexGroup(d, db, rp, startTime) ==
    LET rpi == RP(d, db, rp)
        sgEnd == rpi.ShardGroups[Len(rpi.ShardGroups)].EndTime
        over == {i \in 1..Len(rpi.IndexGroups) :
                    Overlaps(rpi.IndexGroups[i], startTime, sgEnd)}
        endTime == IF over = {} THEN sgEnd ELSE rpi.IndexGroups[MaxOf(over)].EndTime
        ptNum == GetEffectivePtNum(d, db)
        igi == [ID |-> d.MaxIndexGroupID + 1,
                StartTime |-> startTime, EndTime |-> endTime,
                EngineType |-> TSSTORE,
                Indexes |-> NewIndexes(d.MaxIndexID, 0, ptNum),
                DeletedAt |-> 0]
        d1 == [d EXCEPT !.MaxIndexGroupID = @ + 1, !.MaxIndexID = @ + ptNum]
    IN SetRP(d1, db, rp, [rpi EXCEPT !.IndexGroups = SortByStartTime(Append(@, igi))])

----------------------------------------------------------------------------
(* Shard-group manager *)

NewShard(id, owners, indexID, tier, min, max) ==
    [ID |-> id, Owners |-> owners, IndexID |-> indexID, Tier |-> tier,
     Min |-> min, Max |-> max, MarkDelete |-> FALSE]

\* the shard count createShards makes
ShardCount(rpi, msti, shardN) ==
    IF Len(msti.ShardKeys) > 0 /\ msti.ShardKeys[1].Type = RANGE
    THEN IF Len(rpi.ShardGroups) = 0 THEN 1
         ELSE Len(rpi.ShardGroups[Len(rpi.ShardGroups)].Shards)
    ELSE shardN

\* createShards: shard i owns pt i when i < shardN and nothing otherwise;
\* a range-sharded group copies the bounds of the last group of the policy
createShards(d, db, igi, rpi, msti, tier) ==
    LET shardN == GetEffectivePtNum(d, db)
        isRange == Len(msti.ShardKeys) > 0 /\ msti.ShardKeys[1].Type = RANGE
        n == ShardCount(rpi, msti, shardN)
        hasLast == isRange /\ Len(rpi.ShardGroups) > 0
        lastSgi == rpi.ShardGroups[Len(rpi.ShardGroups)]
    IN [i \in 1..n |->
          NewShard(d.MaxShardID + i,
                   IF i - 1 < shardN THEN <<i - 1>> ELSE <<>>,
                   IF i - 1 < shardN THEN igi.Indexes[i].ID ELSE 0,
                   tier,
                   IF hasLast THEN lastSgi.Shards[i].Min ELSE NoBound,
                   IF hasLast THEN lastSgi.Shards[i].Max ELSE NoBound)]

newShardGroup(d, rpi, timestamp, engineType, version) ==
    LET startTime == Truncate(timestamp, rpi.ShardGroupDuration)
    IN [ID |-> d.MaxShardGroupID + 1, StartTime |-> startTime,
        EndTime |-> startTime + rpi.ShardGroupDuration,
        EngineType |-> engineType, Version |-> version,
        Shards |-> <<>>, DeletedAt |-> 0]

\* mstName: the measurement the range over the map rpi.Measurements yields first
CreateShardGroupAlways(d, database, pol, timestamp, tier, engineType, version, mstName) ==
    IF d.ClusterPtNum = 0 THEN R(d, "StorageNodeNotReady")
    ELSE IF RetentionPolicyErr(d, database, pol) # OK
    THEN R(d, RetentionPolicyErr(d, database, pol))
    ELSE IF mstName = NoMst THEN R(d, "NoMeasurement")
    ELSE
      LET msti == RP(d, database, pol).Measurements[mstName]
          ptNum == GetEffectivePtNum(d, database)
          ig == createIndexGroupIfNeeded(d, database, pol, timestamp, engineType, ptNum)
          d1 == ig.d
          rpi == RP(d1, database, pol)
          sgi == newShardGroup(d1, rpi, timestamp, engineType, version)
          shards == createShards(d1, database, ig.igi, rpi, msti, tier)
          d2 == [d1 EXCEPT !.MaxShardGroupID = @ + 1, !.MaxShardID = @ + Len(shards)]
      IN R(SetRP(d2, database, pol,
                 [rpi EXCEPT !.ShardGroups =
                     SortByStartTime(Append(@, [sgi EXCEPT !.Shards = shards]))]),
           OK)

CreateShardGroup(d, database, pol, timestamp, tier, engineType, version, mstName) ==
    IF d.ClusterPtNum = 0 THEN R(d, "StorageNodeNotReady")
    ELSE IF RetentionPolicyErr(d, database, pol) # OK
    THEN R(d, RetentionPolicyErr(d, database, pol))
    ELSE IF ShardGroupByTimestampAndEngineType(RP(d, database, pol), timestamp, engineType) # 0
    THEN R(d, OK)
    ELSE IF mstName = NoMst THEN R(d, "NoMeasurement")
    ELSE
      LET msti == RP(d, database, pol).Measurements[mstName]
          ptNum == GetEffectivePtNum(d, database)
          ig == createIndexGroupIfNeeded(d, database, pol, timestamp, engineType, ptNum)
          d1 == ig.d
          rpi == RP(d1, database, pol)
          sgi == newShardGroup(d1, rpi, timestamp, engineType, version)
          shards == createShards(d1, database, ig.igi, rpi, msti, tier)
          d2 == [d1 EXCEPT !.MaxShardGroupID = @ + 1, !.MaxShardID = @ + Len(shards)]
      IN R(SetRP(d2, database, pol,
                 [rpi EXCEPT !.ShardGroups =
                     SortByStartTime(Append(@, [sgi EXCEPT !.Shards = shards]))]),
           OK)

\* CreateShardGroupWithBounds: shard i is owned by the first pt whose id is
\* congruent to i modulo shardN, which is pt i when i < ptNum and none otherwise
CreateShardGroupWithBounds(d, db, rp, startTime, bounds, engineType) ==
    LET rpi == RP(d, db, rp)
        lastSg == rpi.ShardGroups[Len(rpi.ShardGroups)]
        igi == rpi.IndexGroups[Len(rpi.IndexGroups)]
        shardN == Len(bounds) + 1
        ptNum == GetEffectivePtNum(d, db)
        shards == [i \in 1..shardN |->
                     NewShard(d.MaxShardID + i,
                              IF i - 1 < ptNum THEN <<i - 1>> ELSE <<>>,
                              IF i - 1 < ptNum THEN igi.Indexes[i].ID ELSE 0,
                              lastSg.Shards[1].Tier,
                              IF i > 1 THEN bounds[i - 1] ELSE NoBound,
                              IF i # shardN THEN bounds[i] ELSE NoBound)]
        sgi == [ID |-> d.MaxShardGroupID + 1, StartTime |-> startTime,
                EndTime |-> lastSg.EndTime, EngineType |-> engineType,
                Version |-> 0, Shards |-> shards, DeletedAt |-> 0]
        d1 == [d EXCEPT !.MaxShardGroupID = @ + 1, !.MaxShardID = @ + shardN]
    IN IF Len(lastSg.Shards) = 0
          \/ (\E i \in 1..shardN : i - 1 < ptNum /\ i > Len(igi.Indexes))
       THEN R(d, Panic)
       ELSE R(SetRP(d1, db, rp,
                    [rpi EXCEPT !.ShardGroups = SortByStartTime(Append(@, sgi))]),
              OK)

ReSharding(d, info) ==
    IF RetentionPolicyErr(d, info.Database, info.Rp) # OK
    THEN R(d, RetentionPolicyErr(d, info.Database, info.Rp))
    ELSE LET rp == RP(d, info.Database, info.Rp)
             length == Len(rp.ShardGroups)
         IN IF length = 0 THEN R(d, "ShardGroupNotFound")
            ELSE IF rp.ShardGroups[length].ID # info.ShardGroupID
            THEN R(d, "ShardGroupAlreadyReSharding")
            ELSE LET startTime == info.SplitTime + 1
                     d1 == createIndexGroup(d, info.Database, info.Rp, startTime)
                     r == CreateShardGroupWithBounds(d1, info.Database, info.Rp,
                              startTime, info.Bounds, rp.ShardGroups[length].EngineType)
                 IN IF r.err = Panic THEN R(d, Panic) ELSE r

----------------------------------------------------------------------------
(* ExpandGroups and DropShard *)

\* WalkDatabasesOrderly and WalkRetentionPolicyOrderly visit names in
\* ascending order
DbOrder == <<"db0", "db1", "db2">>
RpOrder == <<"rp0", "rp1">>

\* rp.shardingType(): RANGE when a measurement of the policy is range-sharded
shardingType(rpi) ==
    IF \E m \in DOMAIN rpi.Measurements :
          Len(rpi.Measurements[m].ShardKeys) > 0
          /\ rpi.Measurements[m].ShardKeys[1].Type = RANGE
    THEN RANGE ELSE HASH

\* rp.walkIndexGroups: every index group grows to ptNum indexes
RECURSIVE ExpandIndexes(_, _, _, _, _)
ExpandIndexes(d, db, rp, igIdx, ptNum) ==
    LET rpi == RP(d, db, rp)
    IN IF igIdx > Len(rpi.IndexGroups) THEN d
       ELSE LET ig == rpi.IndexGroups[igIdx]
                have == Len(ig.Indexes)
                add == IF ptNum > have THEN ptNum - have ELSE 0
                d1 == [d EXCEPT
                         !.MaxIndexID = @ + add,
                         !.Databases[db].RetentionPolicies[rp].IndexGroups[igIdx].Indexes =
                             @ \o NewIndexes(d.MaxIndexID, have, have + add)]
            IN ExpandIndexes(d1, db, rp, igIdx + 1, ptNum)

\* rp.WalkShardGroups: every shard group grows to ptNum shards
RECURSIVE ExpandShards(_, _, _, _, _)
ExpandShards(d, db, rp, sgIdx, ptNum) ==
    LET rpi == RP(d, db, rp)
    IN IF sgIdx > Len(rpi.ShardGroups) THEN R(d, OK)
       ELSE LET sg == rpi.ShardGroups[sgIdx]
                i == Len(sg.Shards)
            IN IF i >= ptNum THEN ExpandShards(d, db, rp, sgIdx + 1, ptNum)
               ELSE IF i = 0 THEN R(d, Panic)
               ELSE LET ig == createIndexGroupIfNeeded(d, db, rp, sg.StartTime,
                                                       sg.EngineType, ptNum)
                        sh == NewShard(ig.d.MaxShardID + 1, <<i>>,
                                       ig.igi.Indexes[i + 1].ID, sg.Shards[i].Tier,
                                       NoBound, NoBound)
                        d1 == [ig.d EXCEPT
                                 !.MaxShardID = @ + 1,
                                 !.Databases[db].RetentionPolicies[rp].ShardGroups[sgIdx].Shards =
                                     Append(@, sh)]
                    IN ExpandShards(d1, db, rp, sgIdx, ptNum)

RECURSIVE ExpandRps(_, _, _)
ExpandRps(d, db, rpIdx) ==
    IF rpIdx > Len(RpOrder) THEN R(d, OK)
    ELSE LET rp == RpOrder[rpIdx]
         IN IF ~Has(d.Databases[db].RetentionPolicies, rp)
               \/ shardingType(RP(d, db, rp)) = RANGE
            THEN ExpandRps(d, db, rpIdx + 1)
            ELSE LET ptNum == GetEffectivePtNum(d, db)
                     r == ExpandShards(ExpandIndexes(d, db, rp, 1, ptNum), db, rp, 1, ptNum)
                 IN IF r.err # OK THEN r ELSE ExpandRps(r.d, db, rpIdx + 1)

RECURSIVE ExpandDbs(_, _)
ExpandDbs(d, dbIdx) ==
    IF dbIdx > Len(DbOrder) THEN R(d, OK)
    ELSE IF ~Has(d.Databases, DbOrder[dbIdx]) THEN ExpandDbs(d, dbIdx + 1)
    ELSE LET r == ExpandRps(d, DbOrder[dbIdx], 1)
         IN IF r.err # OK THEN r ELSE ExpandDbs(r.d, dbIdx + 1)

ExpandGroups(d0) ==
    Let(d0, LAMBDA d :
        Let(ExpandDbs(d, 1), LAMBDA r : IF r.err # OK THEN R(d, Panic) ELSE r))

\* every <<db, rp, g, i>> such that shard i of shard group g of rp of db exists
ShardRefs(d) ==
    UNION {UNION {UNION {{<<db, rp, g, i>> :
                            i \in 1..Len(RP(d, db, rp).ShardGroups[g].Shards)} :
                         g \in 1..Len(RP(d, db, rp).ShardGroups)} :
                  rp \in DOMAIN d.Databases[db].RetentionPolicies} :
           db \in DOMAIN d.Databases}

ShardAt(d, h) == RP(d, h[1], h[2]).ShardGroups[h[3]].Shards[h[4]]

\* DropShard: now is time.Now(), a positive time
DropShard(d, id, now) ==
    LET hits == {h \in ShardRefs(d) : ShardAt(d, h).ID = id}
    IN IF hits = {} THEN R(d, OK)
       ELSE LET h == CHOOSE x \in hits : TRUE
                sg == RP(d, h[1], h[2]).ShardGroups[h[3]]
                shards == [j \in 1..(Len(sg.Shards) - 1) |->
                             IF j < h[4] THEN sg.Shards[j] ELSE sg.Shards[j + 1]]
            IN R([d EXCEPT
                    !.Databases[h[1]].RetentionPolicies[h[2]].ShardGroups[h[3]] =
                        [@ EXCEPT !.Shards = shards,
                                  !.DeletedAt = IF Len(shards) = 0 THEN now ELSE @]],
                 OK)

----------------------------------------------------------------------------
(* Node registry: operations *)

\* the id a new node takes over from a node of the other kind at the same
\* TCP address, 0 when there is none
ExistingID(nodes, tcpHost) ==
    LET i == FirstIdx(nodes, LAMBDA n : n.TCPHost = tcpHost)
    IN IF i = 0 THEN 0 ELSE nodes[i].ID

CreateDataNodeKeepConn(d, host, tcpHost, role) ==
    LET d0 == [d EXCEPT !.MaxConnID = @ + 1]
        dup == FirstIdx(d0.DataNodes, LAMBDA n : n.TCPHost = tcpHost)
        metaID == ExistingID(d0.MetaNodes, tcpHost)
        d1 == IF metaID = 0 THEN [d0 EXCEPT !.MaxNodeID = @ + 1] ELSE d0
        existingID == IF metaID = 0 THEN d1.MaxNodeID ELSE metaID
        dn == NewDataNode(existingID, host, tcpHost, role, d1.MaxConnID)
        d2 == [d1 EXCEPT !.DataNodes = SortByID(Append(@, dn))]
        d3 == initDataNodePtView(d2, d2.ClusterPtNum)
        r4 == ExpandAllDBs(d3, DOMAIN d3.Databases, d3.ClusterPtNum, existingID)
    IN IF dup # 0
       THEN R(d0, OK)
       ELSE IF role = NodeReader THEN R(d3, OK)
       ELSE IF r4.err # OK THEN R(d, Panic)
       ELSE IF d3.ExpandShardsEnable THEN ExpandGroups(r4.d)
       ELSE r4

CreateDataNode(d, host, tcpHost, role) ==
    LET d0 == [d EXCEPT !.MaxConnID = @ + 1]
        dup == FirstIdx(d0.DataNodes, LAMBDA n : n.TCPHost = tcpHost)
        metaID == ExistingID(d0.MetaNodes, tcpHost)
        d1 == IF metaID = 0 THEN [d0 EXCEPT !.MaxNodeID = @ + 1] ELSE d0
        existingID == IF metaID = 0 THEN d1.MaxNodeID ELSE metaID
        dn == NewDataNode(existingID, host, tcpHost, role, d1.MaxConnID)
        d2 == [d1 EXCEPT !.DataNodes = SortByID(Append(@, dn))]
        d3 == initDataNodePtView(d2, d2.ClusterPtNum)
        r4 == ExpandAllDBs(d3, DOMAIN d3.Databases, d3.ClusterPtNum, existingID)
    IN IF dup # 0
       THEN R([d0 EXCEPT !.DataNodes[dup].ConnID = d0.MaxConnID], OK)
       ELSE IF role = NodeReader THEN R(d3, OK)
       ELSE IF r4.err # OK THEN R(d, Panic)
       ELSE IF d3.ExpandShardsEnable THEN ExpandGroups(r4.d)
       ELSE r4

SetDataNode(d, nodeID, host, tcpHost) ==
    IF \E i \in 1..Len(d.DataNodes) : d.DataNodes[i].Host = host
    THEN R(d, "ErrNodeExists")
    ELSE R([d EXCEPT !.DataNodes = Append(@, NewDataNode(nodeID, host, tcpHost, "", 0))],
           OK)

CreateMetaNode(d, httpAddr, tcpAddr) ==
    LET dataID == ExistingID(d.DataNodes, tcpAddr)
        d1 == IF dataID = 0 THEN [d EXCEPT !.MaxNodeID = @ + 1] ELSE d
        existingID == IF dataID = 0 THEN d1.MaxNodeID ELSE dataID
    IN IF \E i \in 1..Len(d.MetaNodes) : d.MetaNodes[i].Host = httpAddr
       THEN R(d, OK)
       ELSE R([d1 EXCEPT !.MetaNodes =
                  SortByID(Append(@, NewMetaNode(existingID, httpAddr, tcpAddr)))],
              OK)

SetMetaNode(d, httpAddr, tcpAddr) ==
    IF Len(d.MetaNodes) > 1 THEN R(d, "TooManyMetaNodes")
    ELSE IF Len(d.MetaNodes) = 0 THEN CreateMetaNode(d, httpAddr, tcpAddr)
    ELSE R([d EXCEPT !.MetaNodes[1].Host = httpAddr, !.MetaNodes[1].TCPHost = tcpAddr],
           OK)

DeleteMetaNode(d, id) ==
    LET nodes == SelectSeq(d.MetaNodes, LAMBDA n : n.ID # id)
    IN IF id = 0 THEN R(d, "ErrNodeIDRequired")
       ELSE IF Len(nodes) = Len(d.MetaNodes) THEN R(d, "ErrNodeNotFound")
       ELSE R([d EXCEPT !.MetaNodes = nodes], OK)

RemoveNode(d, nodeIds) ==
    R([d EXCEPT !.DataNodes = SelectSeq(@, LAMBDA dn : dn.ID \notin nodeIds)], OK)

MarkTakeover(d, enable) == R([d EXCEPT !.TakeOverEnabled = enable], OK)

updatePtViewStatusAll(d, nid, status) ==
    [d EXCEPT !.PtView =
        [db \in DOMAIN d.PtView |->
            [i \in 1..Len(d.PtView[db]) |->
                [d.PtView[db][i] EXCEPT !.Status = status, !.Ver = @ + 1]]]]

updatePtViewStatus(d, nid, status) ==
    [d EXCEPT !.PtView =
        [db \in DOMAIN d.PtView |->
            [i \in 1..Len(d.PtView[db]) |->
                IF d.PtView[db][i].Owner = nid
                THEN [d.PtView[db][i] EXCEPT !.Status = status, !.Ver = @ + 1]
                ELSE d.PtView[db][i]]]]

\* the gossip address is host:gossipPort, kept abstract as the host
UpdateNodeStatusAnyTime(pol, d, id, status, lTime, gossipPort) ==
    LET i == DataNodeIdx(d, id)
        dn == d.DataNodes[i]
        d1 == [d EXCEPT !.DataNodes[i] =
                 [dn EXCEPT !.Status = status, !.LTime = lTime,
                            !.AliveConnID = IF status = StatusAlive THEN dn.ConnID ELSE @,
                            !.GossipAddr = IF @ = "" THEN dn.Host ELSE @]]
    IN IF ~d.TakeOverEnabled THEN R(d, OK)
       ELSE IF i = 0 THEN R(d, "DataNodeNotFound")
       ELSE IF pol = SharedStorage /\ status = StatusAlive /\ dn.ConnID = dn.AliveConnID
       THEN R(d, "DataNodeSplitBrain")
       ELSE R(updatePtViewStatus(d1, id, Offline), OK)
UpdateNodeStatus(pol, d, id, status, lTime, gossipPort) ==
    LET i == DataNodeIdx(d, id)
        dn == d.DataNodes[i]
        d1 == [d EXCEPT !.DataNodes[i] =
                 [dn EXCEPT !.Status = status, !.LTime = lTime,
                            !.AliveConnID = IF status = StatusAlive THEN dn.ConnID ELSE @,
                            !.GossipAddr = IF @ = "" THEN dn.Host ELSE @]]
    IN IF ~d.TakeOverEnabled THEN R(d, OK)
       ELSE IF i = 0 THEN R(d, "DataNodeNotFound")
       ELSE IF lTime < dn.LTime THEN R(d, "OlderEvent")
       ELSE IF pol = SharedStorage /\ status = StatusAlive /\ dn.ConnID = dn.AliveConnID
       THEN R(d, "DataNodeSplitBrain")
       ELSE R(updatePtViewStatus(d1, id, Offline), OK)

\* info is the caller's copy of the pt: [PtId, Owner, Status]
UpdatePtInfoOwnerOnly(d, db, info, ownerId, status) ==
    IF info.PtId >= Len(DBPtView(d, db)) THEN R(d, "PtNotFound")
    ELSE IF d.PtView[db][info.PtId + 1].Owner # info.Owner
    THEN R(d, "PtChanged")
    ELSE updatePtStatus(d, db, info.PtId, ownerId, status)
UpdatePtInfo(d, db, info, ownerId, status) ==
    IF info.PtId >= Len(DBPtView(d, db)) THEN R(d, "PtNotFound")
    ELSE IF d.PtView[db][info.PtId + 1].Owner # info.Owner
            \/ d.PtView[db][info.PtId + 1].Status # info.Status
    THEN R(d, "PtChanged")
    ELSE updatePtStatus(d, db, info.PtId, ownerId, status)

----------------------------------------------------------------------------
(* Replication updates and snapshots *)

\* rgs[rgId] is written in place; peers = <<>> keeps the old peers
UpdateReplication(d, database, rgId, masterId, peers, status) ==
    IF ~Has(d.ReplicaGroups, database) THEN R(d, "DatabaseNotFound")
    ELSE IF OutOfRange(rgId, Len(d.ReplicaGroups[database])) THEN R(d, Panic)
    ELSE R([d EXCEPT !.ReplicaGroups[database][rgId + 1] =
              [@ EXCEPT !.MasterPtID = masterId,
                        !.Peers = IF Len(peers) > 0 THEN peers ELSE @,
                        !.Status = status]],
           OK)

\* Clone copies the struct and then replaces the fields it deep-copies.
\* ReplicaGroups is not among them: the copy holds the same map as the
\* original.  A nil map is not shared, the original makes its own later.
Clone(d) == [cat |-> d, sharesReplicaGroups |-> ~d.ReplicaGroupsNil]

\* what a reader sees through the snapshot s once the live catalog is d
SnapView(s, d) ==
    IF s.sharesReplicaGroups
    THEN [s.cat EXCEPT !.ReplicaGroups = d.ReplicaGroups]
    ELSE s.cat

----------------------------------------------------------------------------
(* Database / RP registry: operations *)

NewDatabase(name) ==
    [Name |-> name, ReplicaN |-> 0, MarkDeleted |-> FALSE,
     DefaultRetentionPolicy |-> "", RetentionPolicies |-> EmptyMap]

\* a retention policy as a command carries it: no measurements, no groups
NewRetentionPolicy(name, replicaN, sgDuration, igDuration) ==
    [Name |-> name, ReplicaN |-> replicaN, MarkDeleted |-> FALSE,
     ShardGroupDuration |-> sgDuration, IndexGroupDuration |-> igDuration,
     Measurements |-> EmptyMap, MstVersions |-> EmptyMap,
     ShardGroups |-> <<>>, IndexGroups |-> <<>>]

\* a check that takes a database being deleted for an absent one
CheckCanCreateDatabaseNoDeleted(d, name) ==
    IF name = "" THEN "ErrDatabaseNameRequired"
    ELSE IF d.ClusterPtNum = 0 THEN "StorageNodeNotReady"
    ELSE IF ~Has(d.Databases, name) \/ d.Databases[name].MarkDeleted THEN OK
    ELSE "ErrDatabaseExists"

CheckCanCreateDatabase(d, name) ==
    IF name = "" THEN "ErrDatabaseNameRequired"
    ELSE IF d.ClusterPtNum = 0 THEN "StorageNodeNotReady"
    ELSE IF ~Has(d.Databases, name) THEN OK
    ELSE IF d.Databases[name].MarkDeleted THEN "DatabaseIsBeingDelete"
    ELSE "ErrDatabaseExists"

\* rpi.CheckSpecValid() passes for the policies the model submits
CheckCanCreateRetentionPolicy(dbi, rpi, makeDefault) ==
    IF rpi = NilRp THEN "ErrRetentionPolicyRequired"
    ELSE IF rpi.Name = "" THEN "ErrRetentionPolicyNameRequired"
    ELSE IF rpi.ReplicaN < 1 THEN "ErrReplicationFactorTooLow"
    ELSE IF ~Has(dbi.RetentionPolicies, rpi.Name)
    THEN IF dbi.ReplicaN # 0 /\ rpi.ReplicaN # dbi.ReplicaN
         THEN "ErrReplicaNConflict" ELSE OK
    ELSE LET existRp == dbi.RetentionPolicies[rpi.Name]
         IN IF existRp.ReplicaN # rpi.ReplicaN
               \/ existRp.ShardGroupDuration # rpi.ShardGroupDuration
               \/ existRp.IndexGroupDuration # rpi.IndexGroupDuration
            THEN "ErrRetentionPolicyConflict"
            ELSE IF makeDefault /\ dbi.DefaultRetentionPolicy # rpi.Name
            THEN "ErrRetentionPolicyConflict"
            ELSE "ErrRetentionPolicyExists"

SetRetentionPolicy(dbi, rpi, makeDefault) ==
    [dbi EXCEPT !.RetentionPolicies = MapPut(@, rpi.Name, rpi),
                !.DefaultRetentionPolicy = IF makeDefault THEN rpi.Name ELSE @]

SetDatabase(d, dbi) == [d EXCEPT !.Databases = MapPut(@, dbi.Name, dbi)]

\* a create that replaces the database it finds
CreateDatabaseOverwrite(d, dbName, rpi, replicaN) ==
    LET err == CheckCanCreateDatabase(d, dbName)
        dbi == NewDatabase(dbName)
        dbi1 == IF rpi = NilRp THEN dbi ELSE SetRetentionPolicy(dbi, rpi, TRUE)
    IN IF err \notin {OK, "ErrDatabaseExists"} THEN R(d, err)
       ELSE R(SetDatabase(d, [dbi1 EXCEPT !.ReplicaN = replicaN]), OK)

CreateDatabase(d, dbName, rpi, replicaN) ==
    LET err == CheckCanCreateDatabase(d, dbName)
        dbi == NewDatabase(dbName)
        rpErr == IF rpi = NilRp THEN OK ELSE CheckCanCreateRetentionPolicy(dbi, rpi, TRUE)
        dbi1 == IF rpi = NilRp THEN dbi ELSE SetRetentionPolicy(dbi, rpi, TRUE)
    IN IF err = "ErrDatabaseExists" THEN R(d, OK)
       ELSE IF err # OK THEN R(d, err)
       ELSE IF rpErr # OK THEN R(d, rpErr)
       ELSE R(SetDatabase(d, [dbi1 EXCEPT !.ReplicaN = replicaN]), OK)

\* a create that stores the policy over a conflicting one
CreateRetentionPolicyOverConflict(d, dbName, rpi, makeDefault) ==
    LET err == IF GetDatabase(d, dbName) # OK THEN GetDatabase(d, dbName)
               ELSE CheckCanCreateRetentionPolicy(d.Databases[dbName], rpi, makeDefault)
    IN IF err = "ErrRetentionPolicyExists" THEN R(d, OK)
       ELSE IF err \notin {OK, "ErrRetentionPolicyConflict"} THEN R(d, err)
       ELSE R([d EXCEPT !.Databases[dbName] = SetRetentionPolicy(@, rpi, makeDefault)], OK)

CreateRetentionPolicy(d, dbName, rpi, makeDefault) ==
    LET err == IF GetDatabase(d, dbName) # OK THEN GetDatabase(d, dbName)
               ELSE CheckCanCreateRetentionPolicy(d.Databases[dbName], rpi, makeDefault)
    IN IF err = "ErrRetentionPolicyExists" THEN R(d, OK)
       ELSE IF err # OK THEN R(d, err)
       ELSE R([d EXCEPT !.Databases[dbName] = SetRetentionPolicy(@, rpi, makeDefault)], OK)

\* no stream and no migrate event exists in the model, so neither
\* CheckStreamExistInDatabase nor checkMigrateConflict refuses
\* the id of the migrate event of pt ptId of database db: "{db}${ptId}"
EventId(db, ptId) == <<db, ptId>>

checkMigrateConflict(d, database) ==
    IF \E i \in 0..(Len(DBPtView(d, database)) - 1) : Has(d.MigrateEvents, EventId(database, i))
    THEN "ConflictWithEvent" ELSE OK

\* the model has no streams: CheckStreamExistInDatabase finds none
MarkDatabaseDelete(d, name) ==
    IF ~Has(d.Databases, name) THEN R(d, "DatabaseNotFound")
    ELSE IF d.Databases[name].MarkDeleted THEN R(d, "DatabaseIsBeingDelete")
    ELSE IF checkMigrateConflict(d, name) # OK THEN R(d, checkMigrateConflict(d, name))
    ELSE R([d EXCEPT !.Databases[name].MarkDeleted = TRUE], OK)

\* delete on a nil map is a no-op
DropDatabase(d, name) ==
    R([d EXCEPT !.Databases = MapDel(@, name),
                !.ReplicaGroups = MapDel(@, name),
                !.Users = [i \in DOMAIN @ |-> [@[i] EXCEPT !.Privileges = MapDel(@, name)]],
                !.PtView = MapDel(@, name)],
      OK)

MarkRetentionPolicyDelete(d, database, name) ==
    IF RetentionPolicyErr(d, database, name) # OK
    THEN R(d, RetentionPolicyErr(d, database, name))
    ELSE IF checkMigrateConflict(d, database) # OK
    THEN R(d, checkMigrateConflict(d, database))
    ELSE R([d EXCEPT !.Databases[database].RetentionPolicies[name].MarkDeleted = TRUE], OK)

checkDDLConflict(d, e) ==
    IF ~e.checkConflict THEN OK
    ELSE IF ~Has(d.Databases, e.db) THEN "DatabaseNotFound"
    ELSE IF d.Databases[e.db].MarkDeleted THEN "DatabaseIsBeingDelete"
    ELSE LET rps == d.Databases[e.db].RetentionPolicies
         IN IF \E rp \in DOMAIN rps : rps[rp].MarkDeleted THEN "RpIsBeingDelete"
            ELSE IF \E rp \in DOMAIN rps : \E m \in DOMAIN rps[rp].Measurements :
                       rps[rp].Measurements[m].MarkDeleted
            THEN "MstIsBeingDelete"
            ELSE OK

\* e: [db, ptId, src, dest, currState, preState, checkConflict, opId]
CreateMigrateEvent(d, e) ==
    LET id == EventId(e.db, e.ptId)
    IN IF Has(d.MigrateEvents, id)
       THEN IF \/ d.MigrateEvents[id].src # e.src
               \/ d.MigrateEvents[id].dest # e.dest
               \/ d.MigrateEvents[id].currState # e.currState
               \/ d.MigrateEvents[id].preState # e.preState
            THEN R(d, "PtEventIsAlreadyExist") ELSE R(d, OK)
       ELSE IF checkDDLConflict(d, e) # OK THEN R(d, checkDDLConflict(d, e))
       ELSE R([d EXCEPT !.MaxEventOpId = @ + 1,
                        !.MigrateEvents = MapPut(@, id, [e EXCEPT !.opId = d.MaxEventOpId + 1])],
              OK)

\* an update that does not compare the op ids
UpdateMigrateEventAnyOp(d, e) ==
    LET id == EventId(e.db, e.ptId)
    IN IF ~Has(d.MigrateEvents, id)
       THEN R(d, "EventNotFound")
       ELSE R([d EXCEPT !.MigrateEvents[id].currState = e.currState,
                        !.MigrateEvents[id].preState = e.preState], OK)
UpdateMigrateEvent(d, e) ==
    LET id == EventId(e.db, e.ptId)
    IN IF ~Has(d.MigrateEvents, id) \/ d.MigrateEvents[id].opId # e.opId
       THEN R(d, "EventNotFound")
       ELSE R([d EXCEPT !.MigrateEvents[id].currState = e.currState,
                        !.MigrateEvents[id].preState = e.preState], OK)

RemoveEventInfo(d, eventId) == R([d EXCEPT !.MigrateEvents = MapDel(@, eventId)], OK)

----------------------------------------------------------------------------
(* Users *)

UserIdx(d, username) ==
    IF \E i \in DOMAIN d.Users : d.Users[i].Name = username
    THEN MinOf({i \in DOMAIN d.Users : d.Users[i].Name = username}) ELSE 0

HasAdminUser(d) == \E i \in DOMAIN d.Users : d.Users[i].Admin

CreateUser(d, name, hash, admin, rwuser) ==
    IF name = "" THEN R(d, "ErrUsernameRequired")
    ELSE IF UserIdx(d, name) # 0 THEN R(d, "ErrUserExists")
    ELSE IF admin /\ HasAdminUser(d) THEN R(d, "ErrUserForbidden")
    ELSE R([d EXCEPT !.Users = Append(@, [Name |-> name, Hash |-> hash, Admin |-> admin,
                                          Rwuser |-> rwuser, Privileges |-> EmptyMap]),
                     !.AdminUserExists = IF admin THEN TRUE ELSE @],
           OK)

\* a drop that takes an admin user as well
DropUserAny(d, name) ==
    LET i == UserIdx(d, name)
    IN IF i = 0 THEN R(d, "ErrUserNotFound")
       ELSE R([d EXCEPT !.Users = SubSeq(@, 1, i - 1) \o SubSeq(@, i + 1, Len(@))], OK)

DropUser(d, name) ==
    LET i == UserIdx(d, name)
    IN IF i # 0 /\ d.Users[i].Admin THEN R(d, "ErrUserDropSelf")
       ELSE IF i = 0 THEN R(d, "ErrUserNotFound")
       ELSE R([d EXCEPT !.Users = SubSeq(@, 1, i - 1) \o SubSeq(@, i + 1, Len(@))], OK)

UpdateUser(d, name, hash) ==
    LET i == UserIdx(d, name)
    IN IF i = 0 THEN R(d, "ErrUserNotFound")
       ELSE IF d.Users[i].Hash = hash THEN R(d, "ErrPwdUsed")
       ELSE R([d EXCEPT !.Users[i].Hash = hash], OK)

SetPrivilege(d, name, database, p) ==
    LET i == UserIdx(d, name)
    IN IF i = 0 THEN R(d, "ErrUserNotFound")
       ELSE IF GetDatabase(d, database) # OK THEN R(d, GetDatabase(d, database))
       ELSE R([d EXCEPT !.Users[i].Privileges = MapPut(@, database, p)], OK)

SetAdminPrivilege(d, name, admin) ==
    IF UserIdx(d, name) = 0 THEN R(d, "ErrUserNotFound")
    ELSE R(d, "ErrGrantOrRevokeAdmin")

\* The create-database command as the log applies it: CreateDatabase, then
\* CreateDBPtView, then CreateReplication, stopping at the first error.
ApplyCreateDatabase(pol, d, dbName, rpi, replicaN) ==
    LET r1 == CreateDatabase(d, dbName, rpi, replicaN)
        r2 == CreateDBPtView(pol, r1.d, dbName)
        r3 == CreateReplication(r2.d, dbName, replicaN)
    IN IF r1.err # OK THEN r1
       ELSE IF r2.err # OK THEN r2
       ELSE r3

----------------------------------------------------------------------------
(* Measurements *)

\* rp.Measurement(mst): the name under which the latest version is stored,
\* Nil when the measurement was never created
MeasurementKey(rpi, mst) ==
    IF Has(rpi.MstVersions, mst) /\ Has(rpi.Measurements, rpi.MstVersions[mst].NameWithVer)
    THEN rpi.MstVersions[mst].NameWithVer ELSE NoMst

\* the loop of UpdateSchema over fieldToCreate: r = [schema, err]
RECURSIVE AddFields(_, _, _)
AddFields(r, fieldToCreate, i) ==
    IF i > Len(fieldToCreate) \/ r.err # OK THEN r
    ELSE LET f == fieldToCreate[i]
         IN IF ~Has(r.schema, f.FieldName)
            THEN AddFields([r EXCEPT !.schema = MapPut(@, f.FieldName, f.FieldType)],
                           fieldToCreate, i + 1)
            ELSE IF r.schema[f.FieldName] # f.FieldType
            THEN [r EXCEPT !.err = "ErrFieldTypeConflict"]
            ELSE AddFields(r, fieldToCreate, i + 1)

UpdateSchemaInPlace(d, database, retentionPolicy, mst, fieldToCreate) ==
    IF RetentionPolicyErr(d, database, retentionPolicy) # OK
    THEN R(d, RetentionPolicyErr(d, database, retentionPolicy))
    ELSE LET rpi == RP(d, database, retentionPolicy)
             key == MeasurementKey(rpi, mst)
         IN IF key = NoMst THEN R(d, "ErrMeasurementNotFound")
            ELSE IF rpi.Measurements[key].MarkDeleted THEN R(d, "ErrMeasurementNotFound")
            ELSE LET r == AddFields([schema |-> rpi.Measurements[key].Schema, err |-> OK],
                                    fieldToCreate, 1)
                 IN R(SetRP(d, database, retentionPolicy,
                            [rpi EXCEPT !.Measurements[key].Schema = r.schema]),
                      r.err)
UpdateSchema(d, database, retentionPolicy, mst, fieldToCreate) ==
    IF RetentionPolicyErr(d, database, retentionPolicy) # OK
    THEN R(d, RetentionPolicyErr(d, database, retentionPolicy))
    ELSE LET rpi == RP(d, database, retentionPolicy)
             key == MeasurementKey(rpi, mst)
         IN IF key = NoMst THEN R(d, "ErrMeasurementNotFound")
            ELSE IF rpi.Measurements[key].MarkDeleted THEN R(d, "ErrMeasurementNotFound")
            ELSE LET r == AddFields([schema |-> rpi.Measurements[key].Schema, err |-> OK],
                                    fieldToCreate, 1)
                 IN IF r.err # OK THEN R(d, r.err)
                    ELSE R(SetRP(d, database, retentionPolicy,
                                 [rpi EXCEPT !.Measurements[key].Schema = r.schema]),
                           OK)

\* the measurement and its version are stored before the schema is checked
createVersionMeasurement(d, db, rp, shardKeyType, mst, version, engineType, colStoreInfo, schemaInfo) ==
    LET rpi == RP(d, db, rp)
        ski == [Type |-> shardKeyType, ShardKey |-> <<>>,
                ShardGroup |-> IF Len(rpi.ShardGroups) = 0 THEN d.MaxShardGroupID + 1 ELSE 0]
        nameWithVer == GetNameWithVersion(mst, version)
        msti == [Name |-> nameWithVer, EngineType |-> engineType, MarkDeleted |-> FALSE,
                 ColStoreInfo |-> colStoreInfo,
                 ShardKeys |-> IF shardKeyType # Nil THEN <<ski>> ELSE <<>>,
                 Schema |-> EmptyMap]
        d1 == SetRP(d, db, rp,
                    [rpi EXCEPT
                       !.MstVersions = MapPut(@, mst, [NameWithVer |-> nameWithVer,
                                                       Version |-> version]),
                       !.Measurements = MapPut(@, nameWithVer, msti)])
    IN IF Len(schemaInfo) > 0 THEN UpdateSchema(d1, db, rp, mst, schemaInfo)
       ELSE R(d1, OK)

\* rp.validMeasurementShardType: the measurements of a policy that have a
\* shard key all have the same sharding type
validMeasurementShardType(rpi, shardType, mst) ==
    IF \E k \in DOMAIN rpi.Measurements :
          /\ k[1] # mst
          /\ Len(rpi.Measurements[k].ShardKeys) > 0
          /\ rpi.Measurements[k].ShardKeys[1].Type # shardType
    THEN "ErrShardingTypeConflict" ELSE OK

\* shardKeyType = Nil stands for a command without a shard key
\* a create that does not look at the policy's replica_n
CreateMeasurementAnyRep(d, database, rpName, mst, shardKeyType, engineType, colStoreInfo, schemaInfo) ==
    IF RetentionPolicyErr(d, database, rpName) # OK
    THEN R(d, RetentionPolicyErr(d, database, rpName))
    ELSE LET rp == RP(d, database, rpName)
             key == MeasurementKey(rp, mst)
         IN IF shardKeyType # Nil /\ validMeasurementShardType(rp, shardKeyType, mst) # OK
            THEN R(d, validMeasurementShardType(rp, shardKeyType, mst))
            ELSE IF key = NoMst \/ rp.Measurements[key].MarkDeleted
            THEN createVersionMeasurement(d, database, rpName, shardKeyType, mst,
                     IF Has(rp.MstVersions, mst)
                     THEN (rp.MstVersions[mst].Version + 1) % 65536 ELSE 0,
                     engineType, colStoreInfo, schemaInfo)
            ELSE R(d, "ErrMeasurementExists")

CreateMeasurement(d, database, rpName, mst, shardKeyType, engineType, colStoreInfo, schemaInfo) ==
    IF RetentionPolicyErr(d, database, rpName) # OK
    THEN R(d, RetentionPolicyErr(d, database, rpName))
    ELSE LET rp == RP(d, database, rpName)
             key == MeasurementKey(rp, mst)
         IN IF shardKeyType # Nil /\ validMeasurementShardType(rp, shardKeyType, mst) # OK
            THEN R(d, validMeasurementShardType(rp, shardKeyType, mst))
            ELSE IF shardKeyType # Nil /\ rp.ReplicaN > 1 /\ shardKeyType = RANGE
            THEN R(d, "ConflictWithRep")
            ELSE IF colStoreInfo # Nil /\ rp.ReplicaN > 1
            THEN R(d, "ConflictWithRep")
            ELSE IF key = NoMst \/ rp.Measurements[key].MarkDeleted
            THEN createVersionMeasurement(d, database, rpName, shardKeyType, mst,
                     IF Has(rp.MstVersions, mst)
                     THEN (rp.MstVersions[mst].Version + 1) % 65536 ELSE 0,
                     engineType, colStoreInfo, schemaInfo)
            ELSE LET keys == rp.Measurements[key].ShardKeys
                 IN IF Len(keys) > 0
                       /\ keys[Len(keys)].Type = (IF shardKeyType = Nil THEN "" ELSE shardKeyType)
                       /\ keys[Len(keys)].ShardKey = <<>>
                    THEN R(d, OK)
                    ELSE R(d, "ErrMeasurementExists")

----------------------------------------------------------------------------
(* Import of a backup catalog.  A range over a Go map visits the keys in   *)
(* an order the runtime picks: an order is an input of the operators.      *)

Perms(S) ==
    {p \in [1..Cardinality(S) -> S] : \A i, j \in DOMAIN p : i # j => p[i] # p[j]}

\* a shard group takes the next shard-group id, its shards the next shard ids
RenumberGroup(st, rp, j) ==
    LET sg == st.rps[rp].ShardGroups[j]
    IN [st EXCEPT
          !.sgid = @ + 1,
          !.sid = @ + Len(sg.Shards),
          !.map = [x \in DOMAIN @ \cup {sg.Shards[k].ID : k \in 1..Len(sg.Shards)} |->
                     IF \E k \in 1..Len(sg.Shards) : sg.Shards[k].ID = x
                     THEN st.sid + MaxOf({k \in 1..Len(sg.Shards) : sg.Shards[k].ID = x})
                     ELSE @[x]],
          !.rps[rp].ShardGroups[j] =
              [sg EXCEPT !.ID = st.sgid + 1,
                         !.Shards = [k \in 1..Len(sg.Shards) |->
                                        [sg.Shards[k] EXCEPT !.ID = st.sid + k]]]]

\* for _, rpImport := range dbImport.RetentionPolicies { for j := range ShardGroups {..} }
\* st = [rps, sgid, sid]; rpOrder is the order the map is visited in
RECURSIVE Renumber(_, _, _, _)
Renumber(st, rpOrder, i, j) ==
    IF i > Len(rpOrder) THEN st
    ELSE IF j > Len(st.rps[rpOrder[i]].ShardGroups) THEN Renumber(st, rpOrder, i + 1, 1)
    ELSE Renumber(RenumberGroup(st, rpOrder[i], j), rpOrder, i, j + 1)

\* the retention policies importOneDB copies, before they are renumbered
ImportedRps(dbPtr, backupRPName, restoreRPName) ==
    IF backupRPName # ""
    THEN LET name == IF restoreRPName = "" THEN backupRPName ELSE restoreRPName
         IN MapPut(EmptyMap, name,
                   [dbPtr.RetentionPolicies[backupRPName] EXCEPT !.Name = name])
    ELSE dbPtr.RetentionPolicies

\* a result with the shard id map an import returns (nil with an error)
RMap(d, err, shardIDMap) == [d |-> d, err |-> err, shardIDMap |-> shardIDMap]

\* rpOrder: a function from every possible set of policy names to the order
\* in which the map holding them is visited
importOneDBOverwrite(d, other, backupDBName, restoreDBName, backupRPName, restoreRPName, shardIDMap, rpOrder) ==
    LET restore == IF restoreDBName = "" THEN backupDBName ELSE restoreDBName
        dbPtr == other.Databases[backupDBName]
        r == CreateDatabase(d, restore, NilRp, 1)
        rps == ImportedRps(dbPtr, backupRPName, restoreRPName)
        st == Renumber([rps |-> rps, sgid |-> r.d.MaxShardGroupID, sid |-> r.d.MaxShardID,
                        map |-> shardIDMap],
                       rpOrder[DOMAIN rps], 1, 1)
    IN IF ~Has(other.Databases, backupDBName) \/ dbPtr.MarkDeleted
       THEN RMap(d, "ImportedDatabaseNotFound", EmptyMap)
       ELSE IF r.err # OK THEN RMap(r.d, r.err, EmptyMap)
       ELSE IF backupRPName # ""
               /\ (~Has(dbPtr.RetentionPolicies, backupRPName)
                   \/ dbPtr.RetentionPolicies[backupRPName].MarkDeleted)
       THEN RMap(r.d, "ImportedRetentionPolicyNotFound", EmptyMap)
       ELSE RMap([r.d EXCEPT
                 !.MaxShardGroupID = st.sgid,
                 !.MaxShardID = st.sid,
                 !.Databases[restore] =
                     [@ EXCEPT !.RetentionPolicies = st.rps,
                               !.DefaultRetentionPolicy =
                                   IF backupRPName = "" THEN dbPtr.DefaultRetentionPolicy
                                   ELSE IF restoreRPName = "" THEN backupRPName
                                   ELSE restoreRPName]],
              OK, st.map)

importOneDB(d, other, backupDBName, restoreDBName, backupRPName, restoreRPName, shardIDMap, rpOrder) ==
    LET restore == IF restoreDBName = "" THEN backupDBName ELSE restoreDBName
        dbPtr == other.Databases[backupDBName]
        r == CreateDatabase(d, restore, NilRp, 1)
        rps == ImportedRps(dbPtr, backupRPName, restoreRPName)
        st == Renumber([rps |-> rps, sgid |-> r.d.MaxShardGroupID, sid |-> r.d.MaxShardID,
                        map |-> shardIDMap],
                       rpOrder[DOMAIN rps], 1, 1)
    IN IF ~Has(other.Databases, backupDBName) \/ dbPtr.MarkDeleted
       THEN RMap(d, "ImportedDatabaseNotFound", EmptyMap)
       ELSE IF Has(d.Databases, restore) THEN RMap(d, "DatabaseAlreadyExists", EmptyMap)
       ELSE IF r.err # OK THEN RMap(r.d, r.err, EmptyMap)
       ELSE IF backupRPName # ""
               /\ (~Has(dbPtr.RetentionPolicies, backupRPName)
                   \/ dbPtr.RetentionPolicies[backupRPName].MarkDeleted)
       THEN RMap(r.d, "ImportedRetentionPolicyNotFound", EmptyMap)
       ELSE RMap([r.d EXCEPT
                 !.MaxShardGroupID = st.sgid,
                 !.MaxShardID = st.sid,
                 !.Databases[restore] =
                     [@ EXCEPT !.RetentionPolicies = st.rps,
                               !.DefaultRetentionPolicy =
                                   IF backupRPName = "" THEN dbPtr.DefaultRetentionPolicy
                                   ELSE IF restoreRPName = "" THEN backupRPName
                                   ELSE restoreRPName]],
              OK, st.map)

\* for _, dbi := range other.Databases { importOneDB(other, dbi.Name, "", "", "") }
RECURSIVE ImportAll(_, _, _, _, _, _)
ImportAll(d, other, dbOrder, i, shardIDMap, rpOrder) ==
    IF i > Len(dbOrder) THEN RMap(d, OK, shardIDMap)
    ELSE IF dbOrder[i] = "_internal"
    THEN ImportAll(d, other, dbOrder, i + 1, shardIDMap, rpOrder)
    ELSE LET r == importOneDB(d, other, dbOrder[i], "", "", "", shardIDMap, rpOrder)
         IN IF r.err # OK THEN r ELSE ImportAll(r.d, other, dbOrder, i + 1, r.shardIDMap, rpOrder)

ImportData(d, other, backupDBName, restoreDBName, backupRPName, restoreRPName, dbOrder, rpOrder) ==
    IF backupDBName # ""
    THEN importOneDB(d, other, backupDBName, restoreDBName, backupRPName, restoreRPName,
                     EmptyMap, rpOrder)
    ELSE ImportAll(d, other, dbOrder, 1, EmptyMap, rpOrder)

\* every order in which the runtime may visit the maps of an import
MapOrders(other) ==
    [dbOrder : Perms(DOMAIN other.Databases),
     rpOrder : {f \in [SUBSET Range(RpOrder) -> UNION {Perms(S) : S \in SUBSET Range(RpOrder)}] :
                  \A S \in SUBSET Range(RpOrder) : f[S] \in Perms(S)}]

\* what ImportData may leave behind, over every order
ImportDataOutcomes(d, other, backupDBName, restoreDBName, backupRPName, restoreRPName) ==
    {ImportData(d, other, backupDBName, restoreDBName, backupRPName, restoreRPName,
                o.dbOrder, o.rpOrder) : o \in MapOrders(other)}

----------------------------------------------------------------------------
(* Commands as actions.  A command that panics stops the state machine.    *)

PtNumPerNodes == {1, 2}
ReplicaNs == {1, 2}
Policies == {Replication, SharedStorage}
Roles == {NodeWriter, NodeReader}
Statuses == {StatusAlive, StatusFailed}
LTimes == {0, 1}
PtIds == {0, 1}
HostOrder == <<"h1", "h2", "h3">>

\* last.index is the number of commands the log has applied
Running == last.err # Panic /\ last.index < MaxIndex

NoCmd == [op |-> "none", err |-> OK, id |-> 0, name |-> "", arg |-> "", index |-> 0]

\* name is the database the command names, or the role of the node it adds
Cmd(op, id, name) == [NoCmd EXCEPT !.op = op, !.id = id, !.name = name]

CmdArg(op, id, name, arg) == [Cmd(op, id, name) EXCEPT !.arg = arg]

NodeIDs(d) == {d.DataNodes[i].ID : i \in 1..Len(d.DataNodes)}

\* every pt of every pt-view: <<db, position>>
PtRefs(d) == UNION {{<<db, i>> : i \in 1..Len(d.PtView[db])} : db \in DOMAIN d.PtView}

\* the log applies the command cmd, which returns res
Apply(result, cmd) ==
    \E res \in {result} :
        /\ data' = res.d
        /\ last' = [cmd EXCEPT !.err = res.err, !.index = last.index + 1]
        /\ snap' = snap
        /\ policy' = policy

\* a node joins from the next unused address, or rejoins from a used one
JoinHosts(d) ==
    {d.DataNodes[i].TCPHost : i \in 1..Len(d.DataNodes)}
      \cup {HostOrder[i] : i \in {j \in 1..Len(HostOrder) : j = Len(d.DataNodes) + 1}}

\* id = 1 when the command added a node, 0 when it met a known address
DoCreateDataNode(host, role) ==
    /\ Running
    /\ data.MaxConnID < MaxConn
    /\ host \in JoinHosts(data)
    /\ \E res \in {CreateDataNode(data, host, host, role)} :
          Apply(res, Cmd("CreateDataNode",
                         IF Len(res.d.DataNodes) > Len(data.DataNodes) THEN 1 ELSE 0,
                         role))

DoApplyCreateDatabase(db, replicaN) ==
    /\ Running
    /\ Apply(ApplyCreateDatabase(policy, data, db, NilRp, replicaN),
             Cmd("CreateDatabase", replicaN, db))

DoMarkDatabaseDelete(db) ==
    /\ Running
    /\ Apply(MarkDatabaseDelete(data, db), Cmd("MarkDatabaseDelete", 0, db))

DoDropDatabase(db) ==
    /\ Running
    /\ Has(data.Databases, db)
    /\ Apply(DropDatabase(data, db), Cmd("DropDatabase", 0, db))

DoMarkTakeover(enable) ==
    /\ Running
    /\ data.TakeOverEnabled # enable
    /\ Apply(MarkTakeover(data, enable), Cmd("MarkTakeover", 0, ""))

DoUpdateNodeStatus(id, status, lTime) ==
    /\ Running
    /\ \A h \in PtRefs(data) : data.PtView[h[1]][h[2]].Ver < MaxVer
    /\ Apply(UpdateNodeStatus(policy, data, id, status, lTime, "8011"),
             Cmd("UpdateNodeStatus", id, ""))

\* the caller read the pt earlier: its copy is current, or stale in the status
DoUpdatePtInfo(db, ptId, stale, newOwner, newSt) ==
    /\ Running
    /\ ptId <= Len(DBPtView(data, db))
    /\ newOwner \in NodeIDs(data)
    /\ LET cur == IF ptId < Len(DBPtView(data, db)) THEN data.PtView[db][ptId + 1]
                  ELSE ZeroPt
           info == [PtId |-> ptId, Owner |-> cur.Owner,
                    Status |-> IF stale THEN 1 - cur.Status ELSE cur.Status]
       IN Apply(UpdatePtInfo(data, db, info, newOwner, newSt),
                Cmd("UpdatePtInfo", newOwner, db))

DoRemoveNode(id) ==
    /\ Running
    /\ id \in NodeIDs(data)
    /\ Apply(RemoveNode(data, {id}), Cmd("RemoveNode", id, ""))

Init ==
    /\ \E p \in PtNumPerNodes : data = NewData(p, FALSE)
    /\ last = NoCmd
    /\ snap = NoSnap
    /\ policy \in Policies

Next ==
    \/ \E h \in Hosts, r \in Roles : DoCreateDataNode(h, r)
    \/ \E db \in DbNames, n \in ReplicaNs : DoApplyCreateDatabase(db, n)
    \/ \E db \in DbNames : DoMarkDatabaseDelete(db)
    \/ \E db \in DbNames : DoDropDatabase(db)
    \/ \E e \in BOOLEAN : DoMarkTakeover(e)
    \/ \E id \in 1..MaxDataNodes, st \in Statuses, t \in LTimes :
          DoUpdateNodeStatus(id, st, t)
    \/ \E db \in DbNames, pt \in PtIds, stale \in BOOLEAN,
          n \in 1..MaxDataNodes, ns \in {Offline, Online} :
          DoUpdatePtInfo(db, pt, stale, n, ns)
    \/ \E id \in 1..MaxDataNodes : DoRemoveNode(id)

Spec == Init /\ [][Next]_vars

----------------------------------------------------------------------------
(* Pt-view and replica groups: properties *)

LiveDb(d, db) == Has(d.Databases, db) /\ ~d.Databases[db].MarkDeleted

AddedWriter == last.op = "CreateDataNode" /\ last.err = OK /\ last.id = 1
               /\ last.name = NodeWriter

PtViewsEffective(d) ==
    \A db \in DOMAIN d.PtView :
        LiveDb(d, db) => Len(d.PtView[db]) = GetEffectivePtNum(d, db)

C9_UpdateNodeStatusOfflinesOwnedPts ==
    [][(last'.op = "UpdateNodeStatus" /\ last'.err = OK /\ last'.index # last.index
        /\ data.TakeOverEnabled)
       => /\ DOMAIN data'.PtView = DOMAIN data.PtView
          /\ \A db \in DOMAIN data.PtView :
               /\ Len(data'.PtView[db]) = Len(data.PtView[db])
               /\ \A i \in 1..Len(data.PtView[db]) :
                     IF data.PtView[db][i].Owner = last'.id
                     THEN /\ data'.PtView[db][i].Status = Offline
                          /\ data'.PtView[db][i].Ver = data.PtView[db][i].Ver + 1
                          /\ data'.PtView[db][i].Owner = last'.id
                     ELSE data'.PtView[db][i] = data.PtView[db][i]]_vars

\* an update was accepted for a node that owns a pt which had been online,
\* while another node owns a pt that is still online
C9_Witness ==
    /\ last.op = "UpdateNodeStatus" /\ last.err = OK /\ data.TakeOverEnabled
    /\ \E h \in PtRefs(data) :
          /\ data.PtView[h[1]][h[2]].Owner = last.id
          /\ data.PtView[h[1]][h[2]].Status = Offline
          /\ data.PtView[h[1]][h[2]].Ver >= 2
    /\ \E h \in PtRefs(data) :
          /\ data.PtView[h[1]][h[2]].Owner # last.id
          /\ data.PtView[h[1]][h[2]].Status = Online

Members(rg) == {rg.MasterPtID} \cup {rg.Peers[i].ID : i \in 1..Len(rg.Peers)}

\* the groups are well formed and every pt id below n is in exactly one
GroupsPartition(d, db, n) ==
    LET pv == DBPtView(d, db)
        rgs == DBRepGroups(d, db)
        replicaN == DBReplicaN(d, db)
    IN /\ n <= Len(pv)
       /\ \A g \in 1..Len(rgs) :
             /\ rgs[g].ID = g - 1
             /\ Len(rgs[g].Peers) = replicaN - 1
             /\ Cardinality(Members(rgs[g])) = replicaN
             /\ Members(rgs[g]) \subseteq 0..(Len(pv) - 1)
       /\ \A pt \in 0..(n - 1) :
             /\ Cardinality({g \in 1..Len(rgs) : pt \in Members(rgs[g])}) = 1
             /\ \E g \in 1..Len(rgs) : pt \in Members(rgs[g]) /\ pv[pt + 1].RGID = rgs[g].ID

ReplicaGroupsPartition(d, db) == GroupsPartition(d, db, Len(DBPtView(d, db)))

\* C10: for a database of replica_n > 1, after create_replication and after
\* every create_data_node that brings the node count to a multiple of
\* replica_n, the replica groups partition the pt-view.  Stated as a step:
\* the command that creates the database, and a node joining a database
\* whose groups so far partitioned the pts they reach.
C10_ReplicaGroupsPartitionPtView ==
    [][\A db \in DOMAIN data'.Databases :
          (/\ DBReplicaN(data', db) > 1
           /\ last'.err = OK /\ last'.index # last.index
           /\ \/ /\ last'.op = "CreateDatabase" /\ last'.name = db
                 /\ ~Has(data.Databases, db)
              \/ /\ last'.op = "CreateDataNode" /\ last'.id = 1
                 /\ Len(data'.DataNodes) % DBReplicaN(data', db) = 0
                 /\ Has(data.Databases, db)
                 /\ Len(DBRepGroups(data, db)) > 0
                 /\ GroupsPartition(data, db,
                        DBReplicaN(data, db) * Len(DBRepGroups(data, db))))
          => ReplicaGroupsPartition(data', db)]_vars

----------------------------------------------------------------------------
(* The node registry on its own: data nodes and meta nodes share ids *)

Addrs == {"h1", "h2"}
SetNodeIDs == {1, 3}

AllDataNodes(d) == {d.DataNodes[i] : i \in 1..Len(d.DataNodes)}

AllMetaNodes(d) == {d.MetaNodes[i] : i \in 1..Len(d.MetaNodes)}

DoCreateDataNodeAt(host, tcpHost, role) ==
    /\ Running
    /\ data.MaxConnID < MaxConn
    /\ Len(data.DataNodes) < MaxDataNodes
    /\ \E res \in {CreateDataNode(data, host, tcpHost, role)} :
          Apply(res, Cmd("CreateDataNode",
                         IF Len(res.d.DataNodes) > Len(data.DataNodes) THEN 1 ELSE 0,
                         role))

DoSetDataNode(nodeID, host, tcpHost) ==
    /\ Running
    /\ Len(data.DataNodes) < MaxDataNodes
    /\ Apply(SetDataNode(data, nodeID, host, tcpHost), Cmd("SetDataNode", nodeID, ""))

DoCreateMetaNode(httpAddr, tcpAddr) ==
    /\ Running
    /\ Len(data.MetaNodes) < MaxMetaNodes
    /\ Apply(CreateMetaNode(data, httpAddr, tcpAddr), Cmd("CreateMetaNode", 0, ""))

DoSetMetaNode(httpAddr, tcpAddr) ==
    /\ Running
    /\ Apply(SetMetaNode(data, httpAddr, tcpAddr), Cmd("SetMetaNode", 0, ""))

DoDeleteMetaNode(id) ==
    /\ Running
    /\ Apply(DeleteMetaNode(data, id), Cmd("DeleteMetaNode", id, ""))

InitNodes ==
    /\ data = NewData(1, FALSE)
    /\ last = NoCmd
    /\ snap = NoSnap
    /\ policy = WriteAvailableFirst

NextNodes ==
    \/ \E h \in Addrs, t \in Addrs, r \in Roles : DoCreateDataNodeAt(h, t, r)
    \/ \E id \in SetNodeIDs, h \in Addrs, t \in Addrs : DoSetDataNode(id, h, t)
    \/ \E h \in Addrs, t \in Addrs : DoCreateMetaNode(h, t)
    \/ \E h \in Addrs, t \in Addrs : DoSetMetaNode(h, t)
    \/ \E id \in 0..MaxDataNodes : DoDeleteMetaNode(id)
    \/ \E id \in 1..MaxDataNodes : DoRemoveNode(id)

SpecNodes == InitNodes /\ [][NextNodes]_vars

\* C5: the ids of the data nodes are pairwise distinct, and a data node has
\* the id of a meta node only if both have the same tcp_host.  Stated for
\* the catalogs whose data nodes all joined through create_data_node.
C5_NodeIdsDistinct ==
    (\A n \in AllDataNodes(data) : n.Role \in Roles) =>
        /\ \A i, j \in 1..Len(data.DataNodes) :
              i # j => data.DataNodes[i].ID # data.DataNodes[j].ID
        /\ \A n \in AllDataNodes(data), m \in AllMetaNodes(data) :
              n.ID = m.ID => n.TCPHost = m.TCPHost

\* C3: no counter ever decreases, and every id present in the state is at
\* most its counter, ids introduced by set_data_node included.
AllShardGroups(d) ==
    UNION {UNION {Range(RP(d, db, rp).ShardGroups) :
                  rp \in DOMAIN d.Databases[db].RetentionPolicies} :
           db \in DOMAIN d.Databases}

AllIndexGroups(d) ==
    UNION {UNION {Range(RP(d, db, rp).IndexGroups) :
                  rp \in DOMAIN d.Databases[db].RetentionPolicies} :
           db \in DOMAIN d.Databases}

IdsWithinCounters(d) ==
    /\ \A n \in AllDataNodes(d) \cup AllMetaNodes(d) : n.ID <= d.MaxNodeID
    /\ \A g \in AllShardGroups(d) :
          /\ g.ID <= d.MaxShardGroupID
          /\ \A sh \in Range(g.Shards) : sh.ID <= d.MaxShardID
    /\ \A g \in AllIndexGroups(d) :
          /\ g.ID <= d.MaxIndexGroupID
          /\ \A ix \in Range(g.Indexes) : ix.ID <= d.MaxIndexID

CountersMonotone(d, e) ==
    /\ d.MaxNodeID <= e.MaxNodeID
    /\ d.MaxShardGroupID <= e.MaxShardGroupID
    /\ d.MaxShardID <= e.MaxShardID
    /\ d.MaxIndexGroupID <= e.MaxIndexGroupID
    /\ d.MaxIndexID <= e.MaxIndexID
    /\ d.MaxEventOpId <= e.MaxEventOpId

C3_IdsWithinCounters ==
    [][CountersMonotone(data, data') /\ IdsWithinCounters(data')]_vars

----------------------------------------------------------------------------
(* Snapshots: a reader clones the catalog while the log goes on *)

PeerLists == {<<>>, <<[ID |-> 0, PtRole |-> Slave]>>}

DoUpdateReplication(db, rgId, masterId, peers, status) ==
    /\ Running
    /\ Apply(UpdateReplication(data, db, rgId, masterId, peers, status),
             Cmd("UpdateReplication", rgId, db))

DoClone ==
    /\ Running
    /\ snap = NoSnap
    /\ snap' = <<Clone(data)>>
    /\ UNCHANGED <<data, last, policy>>

InitSnap ==
    /\ data = NewData(1, FALSE)
    /\ last = NoCmd
    /\ snap = NoSnap
    /\ policy = Replication

NextSnap ==
    \/ \E h \in Hosts : DoCreateDataNode(h, NodeWriter)
    \/ \E db \in DbNames, n \in ReplicaNs : DoApplyCreateDatabase(db, n)
    \/ \E db \in DbNames : DoDropDatabase(db)
    \/ \E db \in DbNames, g \in PtIds, m \in PtIds, ps \in PeerLists,
          st \in {Health, SubHealth} : DoUpdateReplication(db, g, m, ps, st)
    \/ DoClone

SpecSnap == InitSnap /\ [][NextSnap]_vars

\* C6: a snapshot taken by Clone is immutable: whatever command the log
\* applies afterwards, the reader sees through it what it held when taken.
C6_SnapshotImmutable ==
    \A i \in 1..Len(snap) : SnapView(snap[i], data) = snap[i].cat

----------------------------------------------------------------------------
(* Shard groups, measurements and imports *)

Times == {0, 2}
EngineTypes == {TSSTORE, COLUMNSTORE}
MstNames == {"m0", "m1"}
ShardKeyTypes == {Nil, HASH, RANGE}
BoundLists == {<<"k">>}

\* the retention policy the create-database command carries: shard groups
\* of one time unit, index groups of two
DefaultRp(name) == NewRetentionPolicy(name, 1, 1, 2)

\* field lists of create_measurement: none, one field, one field twice
\* with two types
Schemas ==
    {<<>>,
     <<[FieldName |-> "f", FieldType |-> "int"]>>,
     <<[FieldName |-> "f", FieldType |-> "int"], [FieldName |-> "f", FieldType |-> "float"]>>}

\* The backup catalog that imports read: a one-node cluster with the
\* databases db1 (policies rp0 and rp1) and db2 (policy rp0), one
\* measurement and one shard group in each policy.
BackupNode == CreateDataNode(NewData(1, FALSE), "h1", "h1", NodeWriter).d
BackupDb1 == ApplyCreateDatabase(WriteAvailableFirst, BackupNode, "db1", DefaultRp("rp0"), 1).d
BackupRp1 == CreateRetentionPolicy(BackupDb1, "db1", DefaultRp("rp1"), FALSE).d
BackupDb2 == ApplyCreateDatabase(WriteAvailableFirst, BackupRp1, "db2", DefaultRp("rp0"), 1).d
BackupMst1 == CreateMeasurement(BackupDb2, "db1", "rp0", "m0", HASH, TSSTORE, Nil, <<>>).d
BackupMst2 == CreateMeasurement(BackupMst1, "db1", "rp1", "m0", HASH, TSSTORE, Nil, <<>>).d
BackupMst3 == CreateMeasurement(BackupMst2, "db2", "rp0", "m0", HASH, TSSTORE, Nil, <<>>).d
BackupSg1 == CreateShardGroup(BackupMst3, "db1", "rp0", 0, 0, TSSTORE, 0, <<"m0", 0>>).d
BackupSg2 == CreateShardGroup(BackupSg1, "db1", "rp1", 0, 0, TSSTORE, 0, <<"m0", 0>>).d
\* a nil *proto2.ShardKeyInfo
NilShardKey == [nil |-> TRUE]

\* shardKey: NilShardKey or [Type, ShardKey]
AlterShardKey(d, database, rpName, mst, shardKey) ==
    IF RetentionPolicyErr(d, database, rpName) # OK
    THEN R(d, RetentionPolicyErr(d, database, rpName))
    ELSE LET rp == RP(d, database, rpName)
             key == MeasurementKey(rp, mst)
         IN IF key = NoMst \/ rp.Measurements[key].MarkDeleted
            THEN R(d, "ErrMeasurementNotFound")
            ELSE IF Len(rp.Measurements[key].ShardKeys) = 0 THEN R(d, Panic)
            ELSE LET keys == rp.Measurements[key].ShardKeys
                     shardKeyInfo == keys[Len(keys)]
                     skiType == IF shardKey = NilShardKey THEN "" ELSE shardKey.Type
                     skiKey == IF shardKey = NilShardKey THEN <<>> ELSE shardKey.ShardKey
                     ski == [Type |-> skiType, ShardKey |-> skiKey,
                             ShardGroup |-> d.MaxShardGroupID + 1]
                 IN IF skiType # shardKeyInfo.Type THEN R(d, "ErrShardingTypeNotEqual")
                    ELSE IF skiKey = shardKeyInfo.ShardKey THEN R(d, OK)
                    ELSE IF validMeasurementShardType(rp, skiType, mst) # OK
                    THEN R(d, validMeasurementShardType(rp, skiType, mst))
                    ELSE IF \/ Len(rp.ShardGroups) = 0
                            \/ MaxOf({rp.ShardGroups[i].ID : i \in DOMAIN rp.ShardGroups})
                                  < shardKeyInfo.ShardGroup
                    THEN R(SetRP(d, database, rpName,
                                 [rp EXCEPT !.Measurements[key].ShardKeys[Len(keys)] = ski]), OK)
                    ELSE R(SetRP(d, database, rpName,
                                 [rp EXCEPT !.Measurements[key].ShardKeys = Append(@, ski)]), OK)

MarkMeasurementDelete(d, database, pol, measurement) ==
    IF RetentionPolicyErr(d, database, pol) # OK
    THEN R(d, RetentionPolicyErr(d, database, pol))
    ELSE LET rp == RP(d, database, pol)
             key == MeasurementKey(rp, measurement)
         IN IF key = NoMst \/ rp.Measurements[key].MarkDeleted
            THEN R(d, "ErrMeasurementNotFound")
            ELSE IF checkMigrateConflict(d, database) # OK
            THEN R(d, checkMigrateConflict(d, database))
            ELSE R(SetRP(d, database, pol, [rp EXCEPT !.Measurements[key].MarkDeleted = TRUE]),
                   OK)

Backup == CreateShardGroup(BackupSg2, "db2", "rp0", 0, 0, TSSTORE, 0, <<"m0", 0>>).d

MeasurementKeys(d, db, rp) ==
    IF RetentionPolicyErr(d, db, rp) = OK /\ DOMAIN RP(d, db, rp).Measurements # {}
    THEN DOMAIN RP(d, db, rp).Measurements ELSE {NoMst}

DoCreateDatabaseRp(db) ==
    /\ Running
    /\ Apply(ApplyCreateDatabase(policy, data, db, DefaultRp("rp0"), 1),
             Cmd("CreateDatabase", 1, db))

DoCreateMeasurement(db, mst, shardKeyType, schemaInfo) ==
    /\ Running
    /\ Apply(CreateMeasurement(data, db, "rp0", mst, shardKeyType, TSSTORE, Nil, schemaInfo),
             CmdArg("CreateMeasurement", Len(schemaInfo), db, mst))

\* m: the measurement the range over rpi.Measurements yields first
DoCreateShardGroup(db, timestamp, engineType, m) ==
    /\ Running
    /\ m \in MeasurementKeys(data, db, "rp0")
    /\ Apply(CreateShardGroup(data, db, "rp0", timestamp, 0, engineType, 0, m),
             CmdArg("CreateShardGroup", timestamp, db, engineType))

DoReSharding(db, shardGroupID, splitTime, bounds) ==
    /\ Running
    /\ Apply(ReSharding(data, [Database |-> db, Rp |-> "rp0", ShardGroupID |-> shardGroupID,
                               SplitTime |-> splitTime, Bounds |-> bounds]),
             Cmd("ReSharding", shardGroupID, db))

DoDropShard(id) ==
    /\ Running
    /\ \E h \in ShardRefs(data) : ShardAt(data, h).ID = id
    /\ Apply(DropShard(data, id, 1), Cmd("DropShard", id, ""))

\* a cluster of one writer node
OneNode(expandShards) ==
    CreateDataNode(NewData(1, expandShards), "h1", "h1", NodeWriter).d

\* the shard-group manager starts on a one-node cluster holding db0 with
\* the policy rp0
InitSg ==
    /\ \E e \in BOOLEAN :
          data = ApplyCreateDatabase(WriteAvailableFirst, OneNode(e), "db0",
                                     DefaultRp("rp0"), 1).d
    /\ last = NoCmd
    /\ snap = NoSnap
    /\ policy = WriteAvailableFirst

NextSg ==
    \/ \E h \in Hosts : DoCreateDataNode(h, NodeWriter)
    \/ \E m \in MstNames, k \in ShardKeyTypes : DoCreateMeasurement("db0", m, k, <<>>)
    \/ \E t \in Times, e \in EngineTypes, m \in {NoMst} \cup (MstNames \X {0}) :
          DoCreateShardGroup("db0", t, e, m)
    \/ \E g \in 1..MaxGroupID, t \in Times, b \in BoundLists :
          DoReSharding("db0", g, t, b)
    \/ \E id \in 1..MaxGroupID : DoDropShard(id)

SpecSg == InitSg /\ [][NextSg]_vars

----------------------------------------------------------------------------
(* Imports *)

BackupOrders == MapOrders(Backup)

DoImportData(backupDBName, backupRPName) ==
    /\ Running
    /\ \E o \in BackupOrders :
          Apply(ImportData(data, Backup, backupDBName, "", backupRPName, "",
                           o.dbOrder, o.rpOrder),
                CmdArg("ImportData", 0, backupDBName, backupRPName))

InitImport ==
    /\ data = OneNode(FALSE)
    /\ last = NoCmd
    /\ snap = NoSnap
    /\ policy = WriteAvailableFirst

NextImport ==
    \/ \E db \in DbNames : DoCreateDatabaseRp(db)
    \/ \E sc \in Schemas : DoCreateMeasurement("db0", "m0", HASH, sc)
    \/ \E t \in Times : DoCreateShardGroup("db0", t, TSSTORE, <<"m0", 0>>)
    \/ \E b \in {"", "db1"}, rp \in {"", "rp0", "rp9"} : DoImportData(b, rp)

SpecImport == InitImport /\ [][NextImport]_vars

----------------------------------------------------------------------------
(* Shard groups, imports: properties *)

\* the index groups of the policy that cover the shard group g: same
\* engine type, overlapping time range
CoveringIndexGroups(rpi, g) ==
    {ig \in Range(rpi.IndexGroups) :
        ig.EngineType = g.EngineType /\ ig.StartTime < g.EndTime /\ g.StartTime < ig.EndTime}

\* C2: every shard of every shard group has an owner, and its index_id is
\* the id of the index at position owners[0] of an index group covering
\* its shard group.
C2_ShardOwnerAndIndex ==
    \A db \in DOMAIN data.Databases :
      \A rp \in DOMAIN data.Databases[db].RetentionPolicies :
        \A g \in Range(RP(data, db, rp).ShardGroups) :
          \A sh \in Range(g.Shards) :
            /\ Len(sh.Owners) >= 1
            /\ \E ig \in CoveringIndexGroups(RP(data, db, rp), g) :
                  /\ sh.Owners[1] < Len(ig.Indexes)
                  /\ sh.IndexID = ig.Indexes[sh.Owners[1] + 1].ID

IndexGroupRefs(d) ==
    UNION {UNION {{<<db, rp, j>> : j \in 1..Len(RP(d, db, rp).IndexGroups)} :
                  rp \in DOMAIN d.Databases[db].RetentionPolicies} :
           db \in DOMAIN d.Databases}

IndexRefs(d) ==
    UNION {{<<h[1], h[2], h[3], i>> :
              i \in 1..Len(RP(d, h[1], h[2]).IndexGroups[h[3]].Indexes)} :
           h \in IndexGroupRefs(d)}

\* C4: all shard ids are pairwise distinct across the catalog, and so are
\* all shard-group ids, all index-group ids and all index ids, entities
\* brought in by import_data included.
C4_IdsUnique ==
    /\ \A a, b \in ShardRefs(data) : a # b => ShardAt(data, a).ID # ShardAt(data, b).ID
    /\ \A a, b \in ShardRefs(data) :
          <<a[1], a[2], a[3]>> # <<b[1], b[2], b[3]>> =>
              RP(data, a[1], a[2]).ShardGroups[a[3]].ID
                # RP(data, b[1], b[2]).ShardGroups[b[3]].ID
    /\ \A a, b \in IndexGroupRefs(data) :
          a # b => RP(data, a[1], a[2]).IndexGroups[a[3]].ID
                     # RP(data, b[1], b[2]).IndexGroups[b[3]].ID
    /\ \A a, b \in IndexRefs(data) :
          a # b => RP(data, a[1], a[2]).IndexGroups[a[3]].Indexes[a[4]].ID
                     # RP(data, b[1], b[2]).IndexGroups[b[3]].Indexes[b[4]].ID

\* C7: a command that returns an error leaves the whole state as it was.
C7_ErrorLeavesStateUnchanged ==
    [][(last'.index # last.index /\ last'.err \notin {OK, Panic}) => data' = data]_vars

\* C8: the state a command leaves does not depend on the order in which
\* the runtime visits a map: neither the ids import_data assigns, nor the
\* measurement create_shard_group picks.
C8_MapOrderDoesNotMatter ==
    [][/\ (last'.op = "ImportData" /\ last'.index # last.index) =>
             Cardinality(ImportDataOutcomes(data, Backup, last'.name, "",
                                            last'.arg, "")) = 1
       /\ (last'.op = "CreateShardGroup" /\ last'.index # last.index) =>
             Cardinality({CreateShardGroup(data, last'.name, "rp0", last'.id, 0,
                                           last'.arg, 0, m) :
                            m \in MeasurementKeys(data, last'.name, "rp0")}) = 1]_vars

----------------------------------------------------------------------------
(* Databases and replication, one command of the log at a time *)

RepHostOrder == <<"h1", "h2", "h3", "h4">>

\* a cluster that w writer nodes have joined
RECURSIVE Writers(_, _)
Writers(ptNumPerNode, w) ==
    IF w = 0 THEN NewData(ptNumPerNode, FALSE)
    ELSE CreateDataNode(Writers(ptNumPerNode, w - 1),
                        RepHostOrder[w], RepHostOrder[w], NodeWriter).d

\* the node at the next unused address joins
DoJoinNode(role) ==
    /\ Running
    /\ data.MaxNodeID < Len(RepHostOrder)
    /\ \E host \in {RepHostOrder[data.MaxNodeID + 1]} :
          Apply(CreateDataNode(data, host, host, role), Cmd("CreateDataNode", 1, role))

\* arg is the name of the retention policy the command carries, "" for none
DoCreateDatabase(db, rpi, replicaN) ==
    /\ Running
    /\ Apply(CreateDatabase(data, db, rpi, replicaN),
             CmdArg("CreateDatabase", replicaN, db, IF rpi = NilRp THEN "" ELSE rpi.Name))

DoCreateDBPtView(db) ==
    /\ Running
    /\ Has(data.Databases, db)
    /\ Apply(CreateDBPtView(policy, data, db), Cmd("CreateDBPtView", 0, db))

\* the command carries the replica_n of the database it follows
DoCreateReplication(db) ==
    /\ Running
    /\ Has(data.Databases, db)
    /\ Has(data.PtView, db)
    /\ Apply(CreateReplication(data, db, data.Databases[db].ReplicaN),
             Cmd("CreateReplication", data.Databases[db].ReplicaN, db))

InitRep ==
    /\ \E p \in PtNumPerNodes, w \in {0, 2} : data = Writers(p, w)
    /\ last = NoCmd
    /\ snap = NoSnap
    /\ policy = Replication

NextRep ==
    \/ \E r \in Roles : DoJoinNode(r)
    \/ \E db \in DbNames, n \in ReplicaNs : DoCreateDatabase(db, NilRp, n)
    \/ \E db \in DbNames : DoCreateDBPtView(db)
    \/ \E db \in DbNames : DoCreateReplication(db)
    \/ \E id \in 1..Len(RepHostOrder) : DoRemoveNode(id)

SpecRep == InitRep /\ [][NextRep]_vars

\* the pt-view of db is the one create_db_pt_view assigns in the catalog d
FreshPtView(pol, d, db) ==
    /\ Has(d.PtView, db)
    /\ \E r \in {CreateDBPtView(pol, [d EXCEPT !.PtView = MapDel(@, db)], db)} :
          r.err = OK /\ Has(r.d.PtView, db) /\ r.d.PtView[db] = d.PtView[db]

\* the data nodes that own the members of the replica group rg
MemberOwners(d, db, rg) ==
    {d.PtView[db][pt + 1].Owner : pt \in Members(rg) \cap (0..(Len(d.PtView[db]) - 1))}

CreatedReplication ==
    /\ last'.op = "CreateReplication" /\ last'.index # last.index
    /\ last'.err = OK /\ last'.id > 1

\* C11: in every replica group that create_replication makes on a freshly
\* assigned pt-view the master and the slaves are owned by pairwise distinct
\* data nodes; with pt_num_per_node = 1, four writers and replica_n = 2 the
\* result is 4 pts and 2 groups, group 0 = master 0 / peer 2 and
\* group 1 = master 1 / peer 3.
C11_ReplicasOnDistinctNodes ==
    [][(/\ CreatedReplication
        /\ FreshPtView(policy, data, last'.name)
        /\ DBRepGroups(data, last'.name) = <<>>)
       => /\ \A g \in 1..Len(DBRepGroups(data', last'.name)) :
                Cardinality(MemberOwners(data', last'.name,
                                         DBRepGroups(data', last'.name)[g])) = last'.id
          /\ (/\ data.PtNumPerNode = 1
              /\ Len(data.DataNodes) = 4
              /\ \A n \in AllDataNodes(data) : n.Role = NodeWriter
              /\ last'.id = 2)
             => /\ Len(DBPtView(data', last'.name)) = 4
                /\ Len(DBRepGroups(data', last'.name)) = 2
                /\ DBRepGroups(data', last'.name)[1].MasterPtID = 0
                /\ DBRepGroups(data', last'.name)[1].Peers = <<[ID |-> 2, PtRole |-> Slave]>>
                /\ DBRepGroups(data', last'.name)[2].MasterPtID = 1
                /\ DBRepGroups(data', last'.name)[2].Peers = <<[ID |-> 3, PtRole |-> Slave]>>]_vars

\* C12: create_replication with replica_n > 1 makes replica groups only when
\* the number of data nodes is a multiple of replica_n; otherwise it fails
\* with ReplicaNodeNumIncorrect and changes nothing; with replica_n <= 1 it
\* succeeds and changes nothing.
C12_ReplicationNeedsMultipleOfReplicaN ==
    [][(last'.op = "CreateReplication" /\ last'.index # last.index)
       => /\ last'.id <= 1 => (last'.err = OK /\ data' = data)
          /\ (last'.id > 1 /\ Len(data.DataNodes) % last'.id # 0)
                => (last'.err = "ReplicaNodeNumIncorrect" /\ data' = data)
          /\ (last'.id > 1 /\ DBRepGroups(data', last'.name) # DBRepGroups(data, last'.name))
                => Len(data.DataNodes) % last'.id = 0]_vars

----------------------------------------------------------------------------
(* The database registry: create, mark-delete and drop of databases and    *)
(* retention policies on a cluster of zero or two writer nodes             *)

\* the retention policies the commands carry: rp0, rp0 with another shard
\* group duration, rp1
RpChoices ==
    {DefaultRp("rp0"), NewRetentionPolicy("rp0", 1, 2, 2), DefaultRp("rp1")}

DoCreateRetentionPolicy(db, rpi, makeDefault) ==
    /\ Running
    /\ Apply(CreateRetentionPolicy(data, db, rpi, makeDefault),
             CmdArg("CreateRetentionPolicy", rpi.ShardGroupDuration, db, rpi.Name))

\* the retention policies a create-database command carries: none or rp0
DbRps == {NilRp, DefaultRp("rp0")}

InitDb ==
    /\ \E w \in {0, 2} : data = Writers(1, w)
    /\ last = NoCmd
    /\ snap = NoSnap
    /\ policy = Replication

NextDb ==
    \/ \E db \in DbNames \cup {""}, rpi \in DbRps, n \in ReplicaNs :
          DoCreateDatabase(db, rpi, n)
    \/ \E db \in DbNames, rpi \in RpChoices, md \in BOOLEAN :
          DoCreateRetentionPolicy(db, rpi, md)
    \/ \E db \in DbNames : DoMarkDatabaseDelete(db)
    \/ \E db \in DbNames : DoDropDatabase(db)
    \/ \E db \in DbNames : DoCreateDBPtView(db)
    \/ \E db \in DbNames : DoCreateReplication(db)

SpecDb == InitDb /\ [][NextDb]_vars

\* a create_database command has just been applied to database last'.name
CreateDatabaseStep == last'.op = "CreateDatabase" /\ last'.index # last.index

\* the command's arguments differ from the database's definition: another
\* replica_n, or a retention policy that is not the database's default
DefinitionDiffers(d, cmd) ==
    \/ d.Databases[cmd.name].ReplicaN # cmd.id
    \/ d.Databases[cmd.name].DefaultRetentionPolicy # cmd.arg

SameRp(existRp, rpi) ==
    /\ existRp.ReplicaN = rpi.ReplicaN
    /\ existRp.ShardGroupDuration = rpi.ShardGroupDuration
    /\ existRp.IndexGroupDuration = rpi.IndexGroupDuration

----------------------------------------------------------------------------
(* The life of a database from mark-delete to drop: two databases on two   *)
(* writer nodes, one user holding a privilege on each                      *)

DelNodes == Writers(1, 2)
DelDb0 == CreateDatabase(DelNodes, "db0", DefaultRp("rp0"), 2).d
DelPt0 == CreateDBPtView(Replication, DelDb0, "db0").d
DelRep0 == CreateReplication(DelPt0, "db0", 2).d
DelDb1 == CreateDatabase(DelRep0, "db1", DefaultRp("rp0"), 1).d
DelPt1 == CreateDBPtView(Replication, DelDb1, "db1").d
DelMst0 == CreateMeasurement(DelPt1, "db0", "rp0", "m0", HASH, TSSTORE, Nil, <<>>).d
DelMst1 == CreateMeasurement(DelMst0, "db1", "rp0", "m0", HASH, TSSTORE, Nil, <<>>).d
DelSg0 == CreateShardGroup(DelMst1, "db0", "rp0", 0, 0, TSSTORE, 0, <<"m0", 0>>).d
DelUser == CreateUser(DelSg0, "u1", "h1", FALSE, TRUE).d
DelPriv0 == SetPrivilege(DelUser, "u1", "db0", "WRITE").d
DelCatalog == SetPrivilege(DelPriv0, "u1", "db1", "READ").d

DelDbNames == {"db0", "db1"}

DoAlterShardKey(db, mst, shardKey) ==
    /\ Running
    /\ Apply(AlterShardKey(data, db, "rp0", mst, shardKey), CmdArg("AlterShardKey", 0, db, mst))

DoUpdateSchema(db, mst, fieldToCreate) ==
    /\ Running
    /\ Apply(UpdateSchema(data, db, "rp0", mst, fieldToCreate),
             CmdArg("UpdateSchema", Len(fieldToCreate), db, mst))

\* the inputs of the commands that must be refused: a second retention
\* policy, a new shard key and a new field
DelRp == NewRetentionPolicy("rp1", 2, 1, 2)
DelShardKey == [Type |-> HASH, ShardKey |-> <<"k">>]
DelFields == <<[FieldName |-> "f", FieldType |-> "int"]>>

InitDel ==
    /\ data = DelCatalog
    /\ last = NoCmd
    /\ snap = NoSnap
    /\ policy = Replication

NextDel ==
    \/ \E db \in DelDbNames : DoMarkDatabaseDelete(db)
    \/ \E db \in DelDbNames : DoDropDatabase(db)
    \/ \E db \in DelDbNames : DoCreateDatabase(db, NilRp, 1)
    \/ \E db \in DelDbNames : DoCreateMeasurement(db, "m1", HASH, <<>>)
    \/ \E db \in DelDbNames : DoCreateRetentionPolicy(db, DelRp, FALSE)
    \/ \E db \in DelDbNames, m \in {NoMst} \cup (MstNames \X {0}) :
          DoCreateShardGroup(db, 2, TSSTORE, m)
    \/ \E db \in DelDbNames : DoReSharding(db, 1, 0, <<"k">>)
    \/ \E db \in DelDbNames : DoAlterShardKey(db, "m0", DelShardKey)
    \/ \E db \in DelDbNames :
          DoUpdateSchema(db, "m0", DelFields)

SpecDel == InitDel /\ [][NextDel]_vars

\* the commands that must fail on a database being deleted
DelOps ==
    {"CreateMeasurement", "CreateRetentionPolicy", "CreateShardGroup", "ReSharding",
     "AlterShardKey", "UpdateSchema"}

BeingDeleted(d, db) == Has(d.Databases, db) /\ d.Databases[db].MarkDeleted

\* what the catalog holds for database db
DbPart(d, db) ==
    [dbi |-> MapSeq(d.Databases, db), pts |-> MapSeq(d.PtView, db),
     groups |-> MapSeq(d.ReplicaGroups, db),
     privs |-> [i \in DOMAIN d.Users |-> MapSeq(d.Users[i].Privileges, db)]]

\* C16: between a successful mark_database_delete(d) and drop_database(d)
\* every create_measurement, create_retention_policy, create_shard_group,
\* re_sharding, alter_shard_key and update_schema on d fails and changes
\* nothing, create_database(d) does not revive d, and d stays mark-deleted;
\* drop_database(d) then removes d, its pt-view, its replica groups and its
\* entry in every user's privileges, and leaves the other databases alone
C16_MarkDeletedUntilDropped ==
    [][\A db \in DelDbNames :
         (BeingDeleted(data, db) /\ last'.index # last.index /\ last'.name = db) =>
            /\ last'.op \in DelOps => (last'.err \notin {OK, Panic} /\ data' = data)
            /\ last'.op = "CreateDatabase" => (last'.err # OK /\ data' = data)
            /\ last'.op # "DropDatabase" => BeingDeleted(data', db)
            /\ last'.op = "DropDatabase" =>
                 /\ ~Has(data'.Databases, db)
                 /\ ~Has(data'.PtView, db)
                 /\ ~Has(data'.ReplicaGroups, db)
                 /\ \A i \in DOMAIN data'.Users : ~Has(data'.Users[i].Privileges, db)
                 /\ \A o \in DelDbNames \ {db} : DbPart(data', o) = DbPart(data, o)]_vars

\* db0 has been dropped with its pt-view, its replica groups and the
\* privilege on it, and db1 and the privilege on db1 are still there
C16_Witness ==
    /\ last.op = "DropDatabase"
    /\ last.name = "db0"
    /\ ~Has(data.Databases, "db0")
    /\ DelCatalog.ReplicaGroups["db0"] # <<>>
    /\ Has(data.Databases, "db1")
    /\ Has(data.Users[1].Privileges, "db1")

----------------------------------------------------------------------------
(* Migrate events against soft-delete DDL: db0 with two pts, the policy    *)
(* rp0 and the measurement m0                                              *)

\* every event asks for the conflict check
MigrateEvent(db, ptId, currState) ==
    [db |-> db, ptId |-> ptId, src |-> 1, dest |-> 2, currState |-> currState,
     preState |-> 0, checkConflict |-> TRUE, opId |-> 0]

\* the pt ids events are created for: the two pts of the pt-view and the
\* pt a third writer node brings
EventPts == 0..2

DoCreateMigrateEvent(db, ptId, currState) ==
    /\ Running
    /\ Apply(CreateMigrateEvent(data, MigrateEvent(db, ptId, currState)),
             CmdArg("CreateMigrateEvent", ptId, db, ""))

DoUpdateMigrateEvent(db, ptId, opId) ==
    /\ Running
    /\ Apply(UpdateMigrateEvent(data, [MigrateEvent(db, ptId, 1) EXCEPT !.opId = opId]),
             CmdArg("UpdateMigrateEvent", ptId, db, ""))

DoRemoveEventInfo(db, ptId) ==
    /\ Running
    /\ Has(data.MigrateEvents, EventId(db, ptId))
    /\ Apply(RemoveEventInfo(data, EventId(db, ptId)), CmdArg("RemoveEventInfo", ptId, db, ""))

DoMarkRetentionPolicyDelete(db, rp) ==
    /\ Running
    /\ Apply(MarkRetentionPolicyDelete(data, db, rp), CmdArg("MarkRetentionPolicyDelete", 0, db, rp))

DoMarkMeasurementDelete(db, rp, mst) ==
    /\ Running
    /\ Apply(MarkMeasurementDelete(data, db, rp, mst), CmdArg("MarkMeasurementDelete", 0, db, mst))

InitEv ==
    /\ data = DelMst1
    /\ last = NoCmd
    /\ snap = NoSnap
    /\ policy = Replication

NextEv ==
    \/ \E pt \in EventPts, st \in {0, 1} : DoCreateMigrateEvent("db0", pt, st)
    \/ \E pt \in EventPts, op \in 1..2 : DoUpdateMigrateEvent("db0", pt, op)
    \/ \E pt \in EventPts : DoRemoveEventInfo("db0", pt)
    \/ DoMarkDatabaseDelete("db0")
    \/ DoMarkRetentionPolicyDelete("db0", "rp0")
    \/ DoMarkMeasurementDelete("db0", "rp0", "m0")
    \/ DoJoinNode(NodeWriter)

SpecEv == InitEv /\ [][NextEv]_vars

\* database db, one of its retention policies or one of its measurements
\* is mark-deleted
SoftDeleted(d, db) ==
    /\ Has(d.Databases, db)
    /\ \/ d.Databases[db].MarkDeleted
       \/ \E rp \in DOMAIN d.Databases[db].RetentionPolicies :
             \/ d.Databases[db].RetentionPolicies[rp].MarkDeleted
             \/ \E m \in DOMAIN d.Databases[db].RetentionPolicies[rp].Measurements :
                   d.Databases[db].RetentionPolicies[rp].Measurements[m].MarkDeleted

\* a pt of the pt-view of db has a migrate event
PtHasEvent(d, db) ==
    \E i \in 0..(Len(DBPtView(d, db)) - 1) : Has(d.MigrateEvents, EventId(db, i))

\* C17: with every migrate event created with check_conflict = true, no
\* reachable state holds a migrate event for a pt of a database while the
\* database, one of its retention policies or one of its measurements is
\* mark-deleted
C17_NoEventOnSoftDeleted ==
    \A db \in DelDbNames : ~(SoftDeleted(data, db) /\ PtHasEvent(data, db))

----------------------------------------------------------------------------
(* Users, privileges and the admin flag *)

UserNames == {"", "u1", "u2"}
Hashes == {"h1", "h2"}

\* id is 1 for an admin create
DoCreateUser(name, hash, admin, rwuser) ==
    /\ Running
    /\ Apply(CreateUser(data, name, hash, admin, rwuser),
             CmdArg("CreateUser", IF admin THEN 1 ELSE 0, name, hash))

DoDropUser(name) ==
    /\ Running
    /\ Apply(DropUser(data, name), Cmd("DropUser", 0, name))

DoUpdateUser(name, hash) ==
    /\ Running
    /\ Apply(UpdateUser(data, name, hash), CmdArg("UpdateUser", 0, name, hash))

DoSetPrivilege(name, db, p) ==
    /\ Running
    /\ Apply(SetPrivilege(data, name, db, p), CmdArg("SetPrivilege", 0, name, db))

DoSetAdminPrivilege(name, admin) ==
    /\ Running
    /\ Apply(SetAdminPrivilege(data, name, admin),
             Cmd("SetAdminPrivilege", IF admin THEN 1 ELSE 0, name))

InitUsers ==
    /\ data = DelSg0
    /\ last = NoCmd
    /\ snap = NoSnap
    /\ policy = Replication

NextUsers ==
    \/ \E u \in UserNames, a \in BOOLEAN : DoCreateUser(u, "h1", a, TRUE)
    \/ \E u \in UserNames : DoDropUser(u)
    \/ \E u \in UserNames, h \in Hashes : DoUpdateUser(u, h)
    \/ \E u \in UserNames, db \in DelDbNames \cup {"nodb"} : DoSetPrivilege(u, db, "WRITE")
    \/ \E u \in UserNames : DoSetAdminPrivilege(u, TRUE)

SpecUsers == InitUsers /\ [][NextUsers]_vars

Admins(d) == {i \in DOMAIN d.Users : d.Users[i].Admin}

\* C18: after every user command at most one user is an admin and the
\* cached flag admin_user_exists is true exactly when the user list holds
\* an admin; drop_user of an admin fails with ErrUserDropSelf and the
\* create of a second admin fails with ErrUserForbidden, both changing
\* nothing
C18_OneAdminAndCacheAgrees ==
    [][last'.index # last.index =>
         /\ Cardinality(Admins(data')) <= 1
         /\ data'.AdminUserExists = HasAdminUser(data')
         /\ (last'.op = "DropUser" /\ UserIdx(data, last'.name) # 0
               /\ data.Users[UserIdx(data, last'.name)].Admin)
              => (last'.err = "ErrUserDropSelf" /\ data' = data)
         /\ (last'.op = "CreateUser" /\ last'.id = 1 /\ HasAdminUser(data))
              => /\ last'.err # OK
                 /\ data' = data
                 /\ (last'.name # "" /\ UserIdx(data, last'.name) = 0)
                      => last'.err = "ErrUserForbidden"]_vars

\* the create of a second admin has been refused: the list still holds one
\* admin, and the user of the command is not in it
C18_Witness ==
    /\ last.op = "CreateUser"
    /\ last.err = "ErrUserForbidden"
    /\ Cardinality(Admins(data)) = 1
    /\ UserIdx(data, last.name) = 0
    /\ data.AdminUserExists

----------------------------------------------------------------------------
(* Measurements of a replicated policy: db0 with the policy rp0 of         *)
(* replica_n 1 or 2 on two writer nodes                                    *)

MstDb1 == CreateDatabase(DelNodes, "db0", DefaultRp("rp0"), 1).d
MstCatalog1 == CreateDBPtView(Replication, MstDb1, "db0").d
MstDb2 == CreateDatabase(DelNodes, "db0", NewRetentionPolicy("rp0", 2, 1, 2), 2).d
MstPt2 == CreateDBPtView(Replication, MstDb2, "db0").d
MstCatalog2 == CreateReplication(MstPt2, "db0", 2).d

ColStoreInfos == {Nil, "cs"}

AlterKeys == {NilShardKey} \cup [Type : {HASH, RANGE}, ShardKey : {<<"k">>}]

\* id is 1 for a create with column-store info
DoCreateMeasurementCol(db, mst, shardKeyType, colStoreInfo) ==
    /\ Running
    /\ Apply(CreateMeasurement(data, db, "rp0", mst, shardKeyType, TSSTORE, colStoreInfo, <<>>),
             CmdArg("CreateMeasurement", IF colStoreInfo = Nil THEN 0 ELSE 1, db, mst))

InitMst ==
    /\ data \in {MstCatalog1, MstCatalog2}
    /\ last = NoCmd
    /\ snap = NoSnap
    /\ policy = Replication

NextMst ==
    \/ \E m \in MstNames, k \in ShardKeyTypes, cs \in ColStoreInfos :
          DoCreateMeasurementCol("db0", m, k, cs)
    \/ \E m \in MstNames, sk \in AlterKeys : DoAlterShardKey("db0", m, sk)
    \/ \E m \in MstNames : DoMarkMeasurementDelete("db0", "rp0", m)
    \/ \E m \in {NoMst} \cup (MstNames \X {0, 1}) : DoCreateShardGroup("db0", 0, TSSTORE, m)

SpecMst == InitMst /\ [][NextMst]_vars

\* the live measurements of policy rpi that have a RANGE shard key or
\* column-store info
RangeOrColStore(rpi) ==
    {m \in DOMAIN rpi.Measurements :
       /\ ~rpi.Measurements[m].MarkDeleted
       /\ \/ \E i \in DOMAIN rpi.Measurements[m].ShardKeys :
                rpi.Measurements[m].ShardKeys[i].Type = RANGE
          \/ rpi.Measurements[m].ColStoreInfo # Nil}

NoRangeOrColStoreOnRep(d) ==
    \A db \in DOMAIN d.Databases : \A rp \in DOMAIN d.Databases[db].RetentionPolicies :
       d.Databases[db].RetentionPolicies[rp].ReplicaN > 1
          => RangeOrColStore(d.Databases[db].RetentionPolicies[rp]) = {}

\* the measurements whose latest shard key is a hash key
HashKeyed(rpi) ==
    {m \in DOMAIN rpi.Measurements :
       /\ Len(rpi.Measurements[m].ShardKeys) > 0
       /\ rpi.Measurements[m].ShardKeys[Len(rpi.Measurements[m].ShardKeys)].Type = HASH}

\* a create_measurement with a RANGE key or with column-store info has been
\* applied to the live policy rp0 of replica_n > 1
RangeOrColCreate(m, k, cs) ==
    /\ last'.op = "CreateMeasurement"
    /\ last'.arg = m
    /\ last'.id = (IF cs = Nil THEN 0 ELSE 1)
    /\ k = RANGE \/ cs # Nil
    /\ RetentionPolicyErr(data, "db0", "rp0") = OK
    /\ RP(data, "db0", "rp0").ReplicaN > 1
    /\ DoCreateMeasurementCol("db0", m, k, cs)

----------------------------------------------------------------------------
(* The codec: Marshal to the protobuf form and Unmarshal into a new Data   *)

\* the element codecs (DataNode.marshal, PtInfo.Marshal, DatabaseInfo.marshal,
\* UserInfo.marshal, MigrateEventInfo.marshal, ReplicaGroup.marshal and their
\* inverses) carry every field of the element
PbSeq(s) == [i \in DOMAIN s |-> s[i]]

\* dbOrder, evOrder: the orders in which the ranges over data.Databases and
\* data.MigrateEvents yield their keys
Marshal(d, dbOrder, evOrder) ==
    [ ClusterPtNum |-> d.ClusterPtNum,
      MaxShardGroupID |-> d.MaxShardGroupID, MaxShardID |-> d.MaxShardID,
      MaxIndexGroupID |-> d.MaxIndexGroupID, MaxIndexID |-> d.MaxIndexID,
      MaxNodeID |-> d.MaxNodeID,
      PtNumPerNode |-> d.PtNumPerNode, MaxEventOpId |-> d.MaxEventOpId,
      TakeOverEnabled |-> d.TakeOverEnabled,
      MaxConnId |-> d.MaxConnID,
      DataNodes |-> PbSeq(d.DataNodes),
      MetaNodes |-> PbSeq(d.MetaNodes),
      PtView |-> [key \in DOMAIN d.PtView |-> [DbPt |-> PbSeq(d.PtView[key])]],
      Databases |-> [i \in DOMAIN dbOrder |-> d.Databases[dbOrder[i]]],
      Users |-> PbSeq(d.Users),
      MigrateEvents |-> [i \in DOMAIN evOrder |-> d.MigrateEvents[evOrder[i]]],
      ReplicaGroups |-> IF Cardinality(DOMAIN d.ReplicaGroups) > 0
                        THEN [dbname \in DOMAIN d.ReplicaGroups |->
                                [Groups |-> PbSeq(d.ReplicaGroups[dbname])]]
                        ELSE EmptyMap ]

\* the map a loop of assignments m[key(x)] = x over a list leaves
ListToMap(list, keys) ==
    [k \in {keys[i] : i \in DOMAIN list} |->
       list[MaxOf({i \in DOMAIN list : keys[i] = k})]]

\* a decode that leaves the migrate events out
UnmarshalNoEvents(recv, pb) ==
    [recv EXCEPT
       !.ClusterPtNum = pb.ClusterPtNum,
       !.MaxNodeID = pb.MaxNodeID,
       !.MaxShardGroupID = pb.MaxShardGroupID,
       !.MaxShardID = pb.MaxShardID,
       !.PtNumPerNode = pb.PtNumPerNode,
       !.MaxIndexGroupID = pb.MaxIndexGroupID,
       !.MaxIndexID = pb.MaxIndexID,
       !.MaxEventOpId = pb.MaxEventOpId,
       !.TakeOverEnabled = pb.TakeOverEnabled,
       !.MaxConnID = pb.MaxConnId,
       !.DataNodes = PbSeq(pb.DataNodes),
       !.MetaNodes = PbSeq(pb.MetaNodes),
       !.PtView = [key \in DOMAIN pb.PtView |-> PbSeq(pb.PtView[key].DbPt)],
       !.Databases = ListToMap(pb.Databases, [i \in DOMAIN pb.Databases |-> pb.Databases[i].Name]),
       !.Users = PbSeq(pb.Users),
       !.MigrateEvents = EmptyMap,
       !.AdminUserExists = \E i \in DOMAIN pb.Users : pb.Users[i].Admin,
       !.ReplicaGroups = IF Cardinality(DOMAIN pb.ReplicaGroups) = 0 THEN @
                         ELSE [dbname \in DOMAIN pb.ReplicaGroups |->
                                 PbSeq(pb.ReplicaGroups[dbname].Groups)],
       !.ReplicaGroupsNil = IF Cardinality(DOMAIN pb.ReplicaGroups) = 0 THEN @ ELSE FALSE]

\* recv: the Data the protobuf form is decoded into
Unmarshal(recv, pb) ==
    [recv EXCEPT
       !.ClusterPtNum = pb.ClusterPtNum,
       !.MaxNodeID = pb.MaxNodeID,
       !.MaxShardGroupID = pb.MaxShardGroupID,
       !.MaxShardID = pb.MaxShardID,
       !.PtNumPerNode = pb.PtNumPerNode,
       !.MaxIndexGroupID = pb.MaxIndexGroupID,
       !.MaxIndexID = pb.MaxIndexID,
       !.MaxEventOpId = pb.MaxEventOpId,
       !.TakeOverEnabled = pb.TakeOverEnabled,
       !.MaxConnID = pb.MaxConnId,
       !.DataNodes = PbSeq(pb.DataNodes),
       !.MetaNodes = PbSeq(pb.MetaNodes),
       !.PtView = [key \in DOMAIN pb.PtView |-> PbSeq(pb.PtView[key].DbPt)],
       !.Databases = ListToMap(pb.Databases, [i \in DOMAIN pb.Databases |-> pb.Databases[i].Name]),
       !.Users = PbSeq(pb.Users),
       !.MigrateEvents =
           ListToMap(pb.MigrateEvents,
                     [i \in DOMAIN pb.MigrateEvents |->
                        EventId(pb.MigrateEvents[i].db, pb.MigrateEvents[i].ptId)]),
       !.AdminUserExists = \E i \in DOMAIN pb.Users : pb.Users[i].Admin,
       !.ReplicaGroups = IF Cardinality(DOMAIN pb.ReplicaGroups) = 0 THEN @
                         ELSE [dbname \in DOMAIN pb.ReplicaGroups |->
                                 PbSeq(pb.ReplicaGroups[dbname].Groups)],
       !.ReplicaGroupsNil = IF Cardinality(DOMAIN pb.ReplicaGroups) = 0 THEN @ ELSE FALSE]

\* the zero Data a snapshot is decoded into
ZeroData == NewData(0, FALSE)

\* the catalog is encoded and decoded into a new Data
DoRoundTrip ==
    /\ Running
    /\ \E dbOrder \in Perms(DOMAIN data.Databases), evOrder \in Perms(DOMAIN data.MigrateEvents) :
          Apply(R(Unmarshal(ZeroData, Marshal(data, dbOrder, evOrder)), OK),
                Cmd("RoundTrip", 0, ""))

\* the retention policy the create-database commands of the codec runs carry
CodecRp == DefaultRp("rp0")

InitCodec ==
    /\ \E e \in BOOLEAN : data = NewData(1, e)
    /\ last = NoCmd
    /\ snap = NoSnap
    /\ policy = Replication

NextCodec ==
    \/ DoJoinNode(NodeWriter)
    \/ \E db \in DelDbNames : DoCreateDatabase(db, CodecRp, 2)
    \/ \E db \in DelDbNames : DoCreateDBPtView(db)
    \/ \E db \in DelDbNames : DoCreateReplication(db)
    \/ \E a \in BOOLEAN : DoCreateUser("u1", "h1", a, TRUE)
    \/ \E db \in DelDbNames : DoCreateMigrateEvent(db, 0, 0)
    \/ DoRoundTrip

SpecCodec == InitCodec /\ [][NextCodec]_vars

RoundTripStep == last'.op = "RoundTrip" /\ last'.index # last.index

\* a and b are equal as structures: a nil and an empty replica-group map
\* are the same
StructEq(a, b) == [a EXCEPT !.ReplicaGroupsNil = FALSE] = [b EXCEPT !.ReplicaGroupsNil = FALSE]

----------------------------------------------------------------------------
(* Shard counts of the shard groups *)

\* a measurement of the policy has a RANGE shard key
RangeSharded(rpi) ==
    \E m \in DOMAIN rpi.Measurements :
       /\ Len(rpi.Measurements[m].ShardKeys) > 0
       /\ rpi.Measurements[m].ShardKeys[1].Type = RANGE

\* the bounds a shard group was split at
BoundsOf(g) == {g.Shards[i].Max : i \in DOMAIN g.Shards} \ {NoBound}

\* C21: every shard group of a hash-sharded policy of database d has
\* effective_pt_num(d) shards, and every shard group of a range-sharded
\* policy has (number of bounds + 1) shards or the shard count of the group
\* before it, also after create_data_node and after drop_shard
C21_ShardCountPerGroup ==
    \A db \in DOMAIN data.Databases :
      \A rp \in DOMAIN data.Databases[db].RetentionPolicies :
        \A i \in DOMAIN RP(data, db, rp).ShardGroups :
          IF RangeSharded(RP(data, db, rp))
          THEN \/ Len(RP(data, db, rp).ShardGroups[i].Shards)
                    = Cardinality(BoundsOf(RP(data, db, rp).ShardGroups[i])) + 1
               \/ /\ i > 1
                  /\ Len(RP(data, db, rp).ShardGroups[i].Shards)
                       = Len(RP(data, db, rp).ShardGroups[i - 1].Shards)
          ELSE Len(RP(data, db, rp).ShardGroups[i].Shards) = GetEffectivePtNum(data, db)

----------------------------------------------------------------------------
(* update_schema *)

FieldNames == {"f", "g"}
FieldTypes == {"int", "float"}
FieldSchemas == [FieldName : FieldNames, FieldType : FieldTypes]

\* the field lists of update_schema: up to two fields
FieldLists == {<<>>} \cup {<<a>> : a \in FieldSchemas} \cup {<<a, b>> : a, b \in FieldSchemas}

DoUpdateSchemaFields(db, mst, fieldToCreate) ==
    /\ Running
    /\ Apply(UpdateSchema(data, db, "rp0", mst, fieldToCreate),
             CmdArg("UpdateSchema", 0, db, [mst |-> mst, fields |-> fieldToCreate]))

InitSchema ==
    /\ data = MstCatalog1
    /\ last = NoCmd
    /\ snap = NoSnap
    /\ policy = Replication

NextSchema ==
    \/ \E m \in MstNames, sc \in Schemas : DoCreateMeasurement("db0", m, HASH, sc)
    \/ \E m \in MstNames, fl \in FieldLists : DoUpdateSchemaFields("db0", m, fl)
    \/ \E m \in MstNames : DoMarkMeasurementDelete("db0", "rp0", m)

SpecSchema == InitSchema /\ [][NextSchema]_vars

\* the schema update_schema(db0, rp0, mst) works on, in catalog d
StoredSchema(d, mst) ==
    RP(d, "db0", "rp0").Measurements[MeasurementKey(RP(d, "db0", "rp0"), mst)].Schema

UpdateSchemaStep == last'.op = "UpdateSchema" /\ last'.index # last.index

\* the names of a field list
NamesOf(fl) == {fl[i].FieldName : i \in DOMAIN fl}

\* C22: update_schema is atomic: a FieldTypeConflict leaves the catalog, and
\* so the stored schema, exactly as before, also when earlier fields of the
\* list were new; a success adds every absent field of the list with the
\* type of its first occurrence, and removes or retypes no field
C22_UpdateSchemaAtomic ==
    [][UpdateSchemaStep =>
         /\ last'.err = "ErrFieldTypeConflict" => data' = data
         /\ last'.err = OK =>
              LET old == StoredSchema(data, last'.arg.mst)
                  new == StoredSchema(data', last'.arg.mst)
                  fl  == last'.arg.fields
              IN /\ DOMAIN new = DOMAIN old \cup NamesOf(fl)
                 /\ \A f \in DOMAIN old : new[f] = old[f]
                 /\ \A i \in DOMAIN fl :
                       (fl[i].FieldName \notin DOMAIN old
                          /\ \A j \in 1..(i - 1) : fl[j].FieldName # fl[i].FieldName)
                       => new[fl[i].FieldName] = fl[i].FieldType]_vars

\* a two-field list whose first field was new and whose second field
\* conflicts was refused
C22_Witness ==
    /\ last.op = "UpdateSchema"
    /\ last.err = "ErrFieldTypeConflict"
    /\ Len(last.arg.fields) = 2
    /\ last.arg.fields[1].FieldName \notin DOMAIN StoredSchema(data, last.arg.mst)
    /\ last.arg.fields[2].FieldName \in DOMAIN StoredSchema(data, last.arg.mst)

----------------------------------------------------------------------------
(* re_sharding *)

ReShardingStep == last'.op = "ReSharding" /\ last'.index # last.index

\* the shard groups of db0/rp0, the policy the re_sharding commands name
Groups(d) == RP(d, "db0", "rp0").ShardGroups

\* C23: re_sharding succeeds only when sg_id is the id of the newest (last)
\* shard group of the policy; with another sg_id it fails with
\* ShardGroupAlreadyReSharding, with no shard group with ShardGroupNotFound,
\* and changes nothing; a re_sharding that follows a successful re_sharding
\* of the same sg_id fails, for every split_time
C23_ReShardingOnlyNewestOnce ==
    [][ReShardingStep =>
         /\ last'.err = OK => /\ Len(Groups(data)) > 0
                              /\ Groups(data)[Len(Groups(data))].ID = last'.id
         /\ Len(Groups(data)) = 0 => last'.err = "ShardGroupNotFound" /\ data' = data
         /\ (Len(Groups(data)) > 0 /\ Groups(data)[Len(Groups(data))].ID # last'.id)
               => last'.err = "ShardGroupAlreadyReSharding" /\ data' = data
         /\ (last.op = "ReSharding" /\ last.err = OK /\ last'.id = last.id)
               => last'.err # OK]_vars

\* the shard group and the index group a successful re_sharding created in d
NewGroup(d) == CHOOSE g \in Range(Groups(d)) : g.ID = d.MaxShardGroupID
NewIndexGroup(d) ==
    CHOOSE ig \in Range(RP(d, "db0", "rp0").IndexGroups) : ig.ID = d.MaxIndexGroupID

\* shard i (from 0) of the k + 1 shards split at bounds b
ShardOfBounds(s, i, b, igi) ==
    /\ s.Min = (IF i = 0 THEN NoBound ELSE b[i])
    /\ s.Max = (IF i = Len(b) THEN NoBound ELSE b[i + 1])
    /\ Len(s.Owners) = 1
    /\ s.Owners[1] % (Len(b) + 1) = i
    /\ s.Owners[1] < Len(igi.Indexes)
    /\ s.IndexID = igi.Indexes[s.Owners[1] + 1].ID

\* C24: after a successful re_sharding with bounds b[0..k-1] the new shard
\* group starts at split_time + 1, ends at the end of the group that was the
\* newest, and has k + 1 shards: shard 0 has no min, shard i has min b[i-1]
\* and max b[i], the last shard has no max, and every shard has exactly one
\* owner pt, congruent to i modulo k + 1, and the id of that pt's index in
\* the index group the same command created
C24_ReShardingResult ==
    [][\A g \in 1..MaxGroupID, t \in Times, b \in BoundLists :
         (ReShardingStep /\ last'.err = OK /\ last'.id = g /\ DoReSharding("db0", g, t, b))
           => /\ NewGroup(data').StartTime = t + 1
              /\ NewGroup(data').EndTime = Groups(data)[Len(Groups(data))].EndTime
              /\ Len(NewGroup(data').Shards) = Len(b) + 1
              /\ \A i \in 0..Len(b) :
                    ShardOfBounds(NewGroup(data').Shards[i + 1], i, b, NewIndexGroup(data'))]_vars

----------------------------------------------------------------------------
(* delete_shard_group and prune_shard_groups *)

\* DeleteShardGroup: now is time.Now(), a positive time
DeleteShardGroup(d, database, pol, id, now) ==
    IF RetentionPolicyErr(d, database, pol) # OK
    THEN R(d, RetentionPolicyErr(d, database, pol))
    ELSE LET rpi == RP(d, database, pol)
         IN R(SetRP(d, database, pol,
                    [rpi EXCEPT !.ShardGroups =
                        [i \in DOMAIN @ |->
                           IF @[i].ID = id THEN [@[i] EXCEPT !.DeletedAt = now] ELSE @[i]]]),
              OK)

\* ShardGroupInfo.canDelete: every shard of the group is marked
canDelete(sg) == \A i \in DOMAIN sg.Shards : sg.Shards[i].MarkDelete

\* the marking step of pruneShardGroups on one group with shards: when id
\* lies between the first and the last shard id, the first shard whose id
\* is at least id is marked
MarkShard(sg, id) ==
    IF id >= sg.Shards[1].ID /\ id <= sg.Shards[Len(sg.Shards)].ID
    THEN LET pos == CHOOSE i \in DOMAIN sg.Shards :
                       /\ sg.Shards[i].ID >= id
                       /\ \A j \in 1..(i - 1) : sg.Shards[j].ID < id
         IN [sg EXCEPT !.Shards[pos].MarkDelete = TRUE]
    ELSE sg

\* the loop of pruneShardGroups over the shard groups of one policy
PruneRp(rpi, id) ==
    [rpi EXCEPT !.ShardGroups =
        SelectSeq([i \in DOMAIN @ |-> MarkShard(@[i], id)],
                  LAMBDA sg : ~(sg.DeletedAt # 0 /\ canDelete(sg)))]

\* pruneShardGroups: Shards[0] of a group without shards is out of range
pruneShardGroups(d, id) ==
    IF \E db \in DOMAIN d.Databases : \E rp \in DOMAIN d.Databases[db].RetentionPolicies :
          \E i \in DOMAIN RP(d, db, rp).ShardGroups : Len(RP(d, db, rp).ShardGroups[i].Shards) = 0
    THEN R(d, Panic)
    ELSE R([d EXCEPT !.Databases =
               [db \in DOMAIN @ |->
                  [@[db] EXCEPT !.RetentionPolicies =
                      [rp \in DOMAIN @ |-> PruneRp(@[rp], id)]]]],
           OK)

DoDeleteShardGroup(id) ==
    /\ Running
    /\ Apply(DeleteShardGroup(data, "db0", "rp0", id, 1), Cmd("DeleteShardGroup", id, "db0"))

DoPruneGroups(id) ==
    /\ Running
    /\ Apply(pruneShardGroups(data, id), Cmd("PruneGroups", id, ""))

MaxShardID == 6

PruneDb == CreateMeasurement(MstCatalog1, "db0", "rp0", "m0", HASH, TSSTORE, Nil, <<>>).d

InitPrune ==
    /\ \E e \in BOOLEAN : data = [PruneDb EXCEPT !.ExpandShardsEnable = e]
    /\ last = NoCmd
    /\ snap = NoSnap
    /\ policy = Replication

NextPrune ==
    \/ \E t \in Times : DoCreateShardGroup("db0", t, TSSTORE, <<"m0", 0>>)
    \/ \E id \in 1..MaxGroupID : DoDeleteShardGroup(id)
    \/ \E id \in 1..MaxShardID : DoPruneGroups(id)
    \/ \E id \in 1..MaxShardID : DoDropShard(id)
    \/ \E h \in Hosts : DoCreateDataNode(h, NodeWriter)

SpecPrune == InitPrune /\ [][NextPrune]_vars

PruneStep == last'.op = "PruneGroups" /\ last'.index # last.index

\* what the prune of shard groups is stated to do to one group: every shard
\* with an id up to id is marked, no other shard is
MarkUpTo(sg, id) ==
    [sg EXCEPT !.Shards =
        [i \in DOMAIN @ |-> IF @[i].ID <= id THEN [@[i] EXCEPT !.MarkDelete = TRUE] ELSE @[i]]]

\* C25: prune_shard_groups(id) marks every shard with an id up to id and no
\* shard with a greater id, and removes exactly the shard groups whose shards
\* are then all marked and whose deleted_at is set; no other group is removed
C25_PruneMarksUpToAndRemovesMarked ==
    [][(PruneStep /\ last'.err = OK) =>
         \A db \in DOMAIN data.Databases :
           \A rp \in DOMAIN data.Databases[db].RetentionPolicies :
             RP(data', db, rp).ShardGroups =
               SelectSeq([i \in DOMAIN RP(data, db, rp).ShardGroups |->
                            MarkUpTo(RP(data, db, rp).ShardGroups[i], last'.id)],
                         LAMBDA sg : ~(sg.DeletedAt # 0 /\ canDelete(sg)))]_vars

----------------------------------------------------------------------------
(* update_pt_info of migrators that read the pt-view *)

\* a migrator reads the catalog; the pt infos of later updates come from it
DoReadPtView ==
    /\ Running
    /\ snap = NoSnap
    /\ snap' = <<Clone(data).cat>>
    /\ UNCHANGED <<data, last, policy>>

\* the PtInfo of pt ptId in the catalog that was read
SnapPtInfo(db, ptId) ==
    IF ptId < Len(DBPtView(snap[1], db))
    THEN [PtId |-> ptId, Owner |-> snap[1].PtView[db][ptId + 1].Owner,
          Status |-> snap[1].PtView[db][ptId + 1].Status]
    ELSE [PtId |-> ptId, Owner |-> 0, Status |-> Offline]

DoUpdatePtInfoRead(db, ptId, newOwner, newSt) ==
    /\ Running
    /\ snap # NoSnap
    /\ Apply(UpdatePtInfo(data, db, SnapPtInfo(db, ptId), newOwner, newSt),
             CmdArg("UpdatePtInfo", ptId, db,
                    [info |-> SnapPtInfo(db, ptId), ownerId |-> newOwner, status |-> newSt]))

PtInputs == 0..2

InitPt ==
    /\ data = MstCatalog1
    /\ last = NoCmd
    /\ snap = NoSnap
    /\ policy = Replication

NextPt ==
    \/ DoReadPtView
    \/ \E pt \in PtInputs, n \in 1..MaxDataNodes, ns \in {Offline, Online} :
          DoUpdatePtInfoRead("db0", pt, n, ns)
    \/ DoCreateDataNode("h3", NodeWriter)

SpecPt == InitPt /\ [][NextPt]_vars

UpdatePtInfoStep == last'.op = "UpdatePtInfo" /\ last'.index # last.index

\* owner and status of pt ptId of db0 in catalog d
OwnerStatus(d, ptId) ==
    <<d.PtView["db0"][ptId + 1].Owner, d.PtView["db0"][ptId + 1].Status>>

\* C26: update_pt_info changes the pt only when the pt's owner and status in
\* the catalog equal those of the caller's info; otherwise it fails with
\* PtChanged, or PtNotFound for a pt id outside the pt-view, and the catalog
\* is unchanged; so of two updates made from the same read pt info, when the
\* first changed owner or status the second fails and changes nothing
C26_UpdatePtInfoOptimistic ==
    [][UpdatePtInfoStep =>
         LET info == last'.arg.info
             n == Len(DBPtView(data, "db0"))
         IN /\ info.PtId >= n => last'.err = "PtNotFound" /\ data' = data
            /\ (info.PtId < n /\ OwnerStatus(data, info.PtId) # <<info.Owner, info.Status>>)
                  => last'.err = "PtChanged" /\ data' = data
            /\ (info.PtId < n /\ OwnerStatus(data, info.PtId) = <<info.Owner, info.Status>>)
                  => /\ last'.err = OK
                     /\ OwnerStatus(data', info.PtId) = <<last'.arg.ownerId, last'.arg.status>>
                     /\ \A p \in (0..(n - 1)) \ {info.PtId} :
                           data'.PtView["db0"][p + 1] = data.PtView["db0"][p + 1]
            /\ (/\ last.op = "UpdatePtInfo" /\ last.err = OK
                /\ last.arg.info = info
                /\ <<last.arg.ownerId, last.arg.status>> # <<info.Owner, info.Status>>)
                  => last'.err = "PtChanged" /\ data' = data]_vars

\* the second of two updates made from the same read pt info was refused
C26_Witness ==
    /\ last.op = "UpdatePtInfo"
    /\ last.err = "PtChanged"
    /\ snap # NoSnap
    /\ last.arg.info = SnapPtInfo("db0", last.id)
    /\ OwnerStatus(data, last.id)[1] # last.arg.info.Owner
    /\ OwnerStatus(data, last.id)[1] # last.arg.ownerId

----------------------------------------------------------------------------
(* Restores: imports from a backup that also holds _internal *)

\* the backup of a restore: db1 (policies rp0 and rp1) and _internal (policy
\* rp0), one measurement and one shard group in each policy
BackupInternalDb == CreateDatabase(BackupRp1, "_internal", DefaultRp("rp0"), 1).d
BackupInternalMst1 == CreateMeasurement(BackupInternalDb, "db1", "rp0", "m0", HASH, TSSTORE, Nil, <<>>).d
BackupInternalMst2 == CreateMeasurement(BackupInternalMst1, "db1", "rp1", "m0", HASH, TSSTORE, Nil, <<>>).d
BackupInternalMst3 == CreateMeasurement(BackupInternalMst2, "_internal", "rp0", "m0", HASH, TSSTORE, Nil, <<>>).d
BackupInternalSg1 == CreateShardGroup(BackupInternalMst3, "db1", "rp0", 0, 0, TSSTORE, 0, <<"m0", 0>>).d
BackupInternalSg2 == CreateShardGroup(BackupInternalSg1, "db1", "rp1", 0, 0, TSSTORE, 0, <<"m0", 0>>).d
BackupInternal == CreateShardGroup(BackupInternalSg2, "_internal", "rp0", 0, 0, TSSTORE, 0, <<"m0", 0>>).d

BackupInternalOrders == MapOrders(BackupInternal)

DoRestore(backupDBName, restoreDBName, backupRPName) ==
    /\ Running
    /\ data.MaxShardGroupID < MaxGroupID
    /\ \E o \in BackupInternalOrders :
          \E res \in {ImportData(data, BackupInternal, backupDBName, restoreDBName,
                                 backupRPName, "", o.dbOrder, o.rpOrder)} :
             Apply(res, CmdArg("ImportData", 0, backupDBName,
                               [restore |-> restoreDBName, rp |-> backupRPName,
                                shardIDMap |-> res.shardIDMap]))

InitRestore ==
    /\ data = OneNode(FALSE)
    /\ last = NoCmd
    /\ snap = NoSnap
    /\ policy = WriteAvailableFirst

NextRestore ==
    \/ DoCreateDatabaseRp("db0")
    \/ DoCreateMeasurement("db0", "m0", HASH, <<>>)
    \/ DoCreateShardGroup("db0", 0, TSSTORE, <<"m0", 0>>)
    \/ DoRestore("", "", "")
    \/ \E b \in {"db1", "_internal"}, r \in {"", "db0"}, rp \in {"", "rp0"} :
          DoRestore(b, r, rp)

SpecRestore == InitRestore /\ [][NextRestore]_vars

RestoreStep == last'.op = "ImportData" /\ last'.index # last.index /\ last'.err = OK

\* the databases a step added
NewDbs == DOMAIN data'.Databases \ DOMAIN data.Databases

\* the shard groups of database db of catalog d
ShardGroupsOf(d, db) ==
    UNION {Range(RP(d, db, rp).ShardGroups) : rp \in DOMAIN d.Databases[db].RetentionPolicies}

ShardIdsOf(d, db) ==
    UNION {{g.Shards[i].ID : i \in DOMAIN g.Shards} : g \in ShardGroupsOf(d, db)}

\* the restore kept every database it met, numbered what it brought from
\* the counters, and returned one map entry for each shard it brought
RestoreKeepsAndRenumbers ==
    /\ \A db \in DOMAIN data.Databases :
          Has(data'.Databases, db) /\ data'.Databases[db] = data.Databases[db]
    /\ NewDbs # {}
    /\ \A db \in NewDbs :
          /\ \A g \in ShardGroupsOf(data', db) :
                g.ID > data.MaxShardGroupID /\ g.ID <= data'.MaxShardGroupID
          /\ \A id \in ShardIdsOf(data', db) :
                id > data.MaxShardID /\ id <= data'.MaxShardID
    /\ LET m == last'.arg.shardIDMap
           new == UNION {ShardIdsOf(data', db) : db \in NewDbs}
       IN /\ {m[x] : x \in DOMAIN m} = new
          /\ Cardinality(DOMAIN m) = Cardinality(new)
          /\ Cardinality(new) = data'.MaxShardID - data.MaxShardID

\* C27 (as stated): a successful import_data changes no database that
\* existed, imports no database named _internal, numbers every imported
\* shard group and shard above the counters it met, and returns a shard id
\* map with one entry for every imported shard that is injective
C27_ImportSkipsInternal ==
    [][RestoreStep => RestoreKeepsAndRenumbers /\ "_internal" \notin NewDbs]_vars

\* C27 (amended): the same, but _internal is skipped only by the import of
\* all databases (empty backup name); an import that names _internal as the
\* backup database brings it in
C27_ImportAllSkipsInternal ==
    [][RestoreStep =>
         /\ RestoreKeepsAndRenumbers
         /\ last'.name = "" => "_internal" \notin NewDbs
         /\ last'.name # "" =>
               NewDbs = {IF last'.arg.restore = "" THEN last'.name ELSE last'.arg.restore}]_vars

\* an import of all databases into a catalog with a database and shards
\* brought db1 and not _internal
C27_Witness ==
    /\ last.op = "ImportData" /\ last.err = OK /\ last.name = ""
    /\ Has(data.Databases, "db0") /\ ShardIdsOf(data, "db0") # {}
    /\ Has(data.Databases, "db1") /\ ~Has(data.Databases, "_internal")
    /\ Cardinality(DOMAIN last.arg.shardIDMap) = 2

\* C28: no command aborts with an out-of-range index or a nil dereference:
\* every command the log applies returns Ok or an error value, also
\* prune_shard_groups and create_data_node with expand_shards_enable after
\* drop_shard removed every shard of a shard group
C28_NoCommandPanics == last.err # Panic

----------------------------------------------------------------------------
(* update_node_status: refused events *)

UpdateNodeStatusStep == last'.op = "UpdateNodeStatus" /\ last'.index # last.index

\* the logical time stored for data node id in catalog d
LTimeOf(d, id) == d.DataNodes[DataNodeIdx(d, id)].LTime

\* C29: update_node_status leaves the whole state unchanged whenever it does
\* not accept the event: it returns Ok and changes nothing when
\* take_over_enabled is false, DataNodeNotFound for an unknown node,
\* OlderEvent for a logical_time below the one stored for the node; and no
\* command makes the logical_time stored for a node smaller
C29_RefusedStatusChangesNothing ==
    [][/\ \A id \in 1..MaxDataNodes, st \in Statuses, t \in LTimes :
            (UpdateNodeStatusStep /\ last'.id = id /\ DoUpdateNodeStatus(id, st, t))
              => /\ ~data.TakeOverEnabled => last'.err = OK /\ data' = data
                 /\ (data.TakeOverEnabled /\ id \notin NodeIDs(data))
                       => last'.err = "DataNodeNotFound" /\ data' = data
                 /\ (data.TakeOverEnabled /\ id \in NodeIDs(data) /\ t < LTimeOf(data, id))
                       => last'.err = "OlderEvent" /\ data' = data
                 /\ last'.err # OK => data' = data
       /\ \A id \in NodeIDs(data) \cap NodeIDs(data') :
             LTimeOf(data', id) >= LTimeOf(data, id)]_vars

\* an event older than the logical time stored for the node was refused
C29_Witness ==
    /\ last.op = "UpdateNodeStatus"
    /\ last.err = "OlderEvent"
    /\ data.TakeOverEnabled
    /\ LTimeOf(data, last.id) = 1

----------------------------------------------------------------------------
(* update_node_status: alive events and re-registration *)

NodeOf(d, id) == d.DataNodes[DataNodeIdx(d, id)]

\* an alive event was accepted for node id since it last registered
AliveAccepted(d, id) ==
    id \in NodeIDs(d) /\ NodeOf(d, id).ConnID = NodeOf(d, id).AliveConnID

TCPHosts(d) == {d.DataNodes[i].TCPHost : i \in 1..Len(d.DataNodes)}

\* an alive update for node id with logical time t is the step taken
AliveStep(id, t) ==
    /\ UpdateNodeStatusStep
    /\ last'.id = id
    /\ DoUpdateNodeStatus(id, StatusAlive, t)

\* create_data_node from the tcp_host of a registered node returns that
\* node: no node is added, pt-views and cluster_pt_num stay, and the node
\* gets a conn_id above every conn_id issued before; an alive update for a
\* node without an accepted alive event is accepted, and so is every alive
\* update under a policy other than shared-storage
ReRegistrationRenewsConn ==
    /\ \A h \in Hosts, r \in Roles :
          (last'.op = "CreateDataNode" /\ last'.index # last.index /\ h \in TCPHosts(data)
           /\ DoCreateDataNode(h, r))
            => /\ last'.err = OK
               /\ Len(data'.DataNodes) = Len(data.DataNodes)
               /\ data'.PtView = data.PtView
               /\ data'.ClusterPtNum = data.ClusterPtNum
               /\ data'.Databases = data.Databases
               /\ \A i \in 1..Len(data.DataNodes) :
                     IF data.DataNodes[i].TCPHost = h
                     THEN /\ data'.DataNodes[i] =
                               [data.DataNodes[i] EXCEPT !.ConnID = data'.DataNodes[i].ConnID]
                          /\ data'.DataNodes[i].ConnID > data.MaxConnID
                          /\ \A j \in 1..Len(data.DataNodes) :
                                /\ data'.DataNodes[i].ConnID > data.DataNodes[j].ConnID
                                /\ data'.DataNodes[i].ConnID > data.DataNodes[j].AliveConnID
                     ELSE data'.DataNodes[i] = data.DataNodes[i]
    /\ \A id \in 1..MaxDataNodes, t \in LTimes :
          (AliveStep(id, t) /\ data.TakeOverEnabled /\ id \in NodeIDs(data)
           /\ t >= LTimeOf(data, id)
           /\ (policy # SharedStorage \/ ~AliveAccepted(data, id)))
            => /\ last'.err = OK
               /\ AliveAccepted(data', id)

\* C30 (as stated): under shared-storage, once an alive status was accepted
\* for a node every further alive update for it fails with
\* DataNodeSplitBrain and changes nothing, until the node registers again
\* through create_data_node with the same tcp_host
C30_AliveTwiceIsSplitBrain ==
    [][/\ \A id \in 1..MaxDataNodes, t \in LTimes :
            (AliveStep(id, t) /\ policy = SharedStorage /\ AliveAccepted(data, id))
              => last'.err = "DataNodeSplitBrain" /\ data' = data
       /\ ReRegistrationRenewsConn]_vars

\* C30 (amended): such a further alive update is never accepted and changes
\* nothing: it returns Ok without effect when take_over_enabled is false,
\* fails with OlderEvent when its logical_time is below the stored one, and
\* with DataNodeSplitBrain otherwise
C30_AliveTwiceIsRefused ==
    [][/\ \A id \in 1..MaxDataNodes, t \in LTimes :
            (AliveStep(id, t) /\ policy = SharedStorage /\ AliveAccepted(data, id))
              => /\ data' = data
                 /\ last'.err = (IF ~data.TakeOverEnabled THEN OK
                                 ELSE IF t < LTimeOf(data, id) THEN "OlderEvent"
                                 ELSE "DataNodeSplitBrain")
       /\ ReRegistrationRenewsConn]_vars

\* node 1 registered again, an alive update for it was accepted, and the
\* next alive update was refused as a split brain
C30_Witness ==
    /\ policy = SharedStorage
    /\ last.op = "UpdateNodeStatus"
    /\ last.err = "DataNodeSplitBrain"
    /\ last.id = 1
    /\ AliveAccepted(data, 1)
    /\ NodeOf(data, 1).ConnID > 1

----------------------------------------------------------------------------
(* Placement of pts *)

\* the nodes a new pt-view is placed on under the policy in force
Eligible(d) == IF policy = SharedStorage THEN GetAliveWriteNode(d) ELSE GetWriteNode(d)

\* pt i of the pt-view pv was created on node owner
FreshPt(pv, i, owner) ==
    /\ pv[i + 1].PtId = i
    /\ pv[i + 1].Owner = owner
    /\ pv[i + 1].Status = Offline
    /\ pv[i + 1].Ver = 1

\* a create-database command made the pt-view of the database it names
PtViewCreated ==
    /\ last'.op = "CreateDatabase" /\ last'.index # last.index
    /\ ~Has(data.PtView, last'.name)

\* a create_data_node added a node of the role
NodeAdded(role) ==
    /\ last'.op = "CreateDataNode" /\ last'.index # last.index
    /\ last'.id = 1 /\ last'.name = role

----------------------------------------------------------------------------
(* create_shard_group *)

CreateShardGroupStep == last'.op = "CreateShardGroup" /\ last'.index # last.index

\* create_shard_group(db0, rp0, ts, engine) found no covering group: it
\* fails without a measurement, and otherwise adds exactly one shard group,
\* which starts at ts truncated to the shard group duration and contains ts
AddsOneGroup(ts, engine) ==
    IF DOMAIN RP(data, "db0", "rp0").Measurements = {} \/ data.ClusterPtNum = 0
    THEN last'.err \notin {OK, Panic} /\ data' = data
    ELSE /\ last'.err = OK
         /\ Len(Groups(data')) = Len(Groups(data)) + 1
         /\ Range(Groups(data)) \subseteq Range(Groups(data'))
         /\ data'.MaxShardGroupID = data.MaxShardGroupID + 1
         /\ \E g \in Range(Groups(data')) :
               /\ g.ID = data'.MaxShardGroupID
               /\ g.EngineType = engine
               /\ g.StartTime = Truncate(ts, RP(data, "db0", "rp0").ShardGroupDuration)
               /\ Contains(g, ts)

----------------------------------------------------------------------------
(* Time ranges of the live shard groups of one policy *)

\* the timestamps the shard groups of the model can contain
Timestamps == 0..(2 + MaxGroupID)

\* the live shard groups of db0/rp0 of an engine type that contain t
LiveGroupsAt(d, t, engineType) ==
    {i \in 1..Len(Groups(d)) :
        /\ ~Deleted(Groups(d)[i])
        /\ Groups(d)[i].EngineType = engineType
        /\ Contains(Groups(d)[i], t)}

\* C33: after any sequence of create_shard_group, re_sharding and drop_shard
\* at most one live shard group of an engine type of the policy contains any
\* timestamp, so no two live shard groups of one engine type overlap.
C33_LiveGroupsDisjoint ==
    \A t \in Timestamps, e \in EngineTypes :
        Cardinality(LiveGroupsAt(data, t, e)) <= 1

----------------------------------------------------------------------------
(* Owners of pts *)

\* the ids of the data nodes of the node list that are writers
WriterIDs(d) == {GetWriteNode(d)[i].ID : i \in 1..GetWriteNodeNum(d)}

\* C34: in every reachable state the owner of every pt of every pt-view is
\* the id of a data node of the node list whose role is writer.
C34_PtOwnersAreWriters ==
    \A db \in DOMAIN data.PtView :
        \A i \in 1..Len(data.PtView[db]) :
            data.PtView[db][i].Owner \in WriterIDs(data)

----------------------------------------------------------------------------
(* update_pt_info from a pt-view read before a version bump *)

UpdatePtVersion(d, db, ptId) ==
    IF ~Has(d.PtView, db) THEN R(d, "DatabaseNotFound")
    ELSE IF ptId >= Len(d.PtView[db]) \/ ptId # d.PtView[db][ptId + 1].PtId
    THEN R(d, "PtNotFound")
    ELSE R([d EXCEPT !.PtView[db][ptId + 1].Ver = @ + 1], OK)

DoUpdatePtVersion(db, ptId) ==
    /\ Running
    /\ \A h \in PtRefs(data) : data.PtView[h[1]][h[2]].Ver < MaxVer
    /\ Apply(UpdatePtVersion(data, db, ptId), Cmd("UpdatePtVersion", ptId, db))

\* the PtInfo of pt ptId in catalog d
PtInfoOf(d, db, ptId) ==
    IF ptId < Len(DBPtView(d, db))
    THEN [PtId |-> ptId, Owner |-> d.PtView[db][ptId + 1].Owner,
          Status |-> d.PtView[db][ptId + 1].Status]
    ELSE [PtId |-> ptId, Owner |-> 0, Status |-> Offline]

\* an update_pt_info of a caller that has just read the pt
DoUpdatePtInfoNow(db, ptId, newOwner, newSt) ==
    /\ Running
    /\ Apply(UpdatePtInfo(data, db, PtInfoOf(data, db, ptId), newOwner, newSt),
             CmdArg("UpdatePtInfo", ptId, db,
                    [info |-> PtInfoOf(data, db, ptId), ownerId |-> newOwner,
                     status |-> newSt]))

\* db0 on two writer nodes with takeover enabled
InitVer ==
    /\ data = MarkTakeover(MstCatalog1, TRUE).d
    /\ last = NoCmd
    /\ snap = NoSnap
    /\ policy = Replication

NextVer ==
    \/ DoReadPtView
    \/ \E n \in 1..MaxDataNodes, ns \in {Offline, Online} :
          DoUpdatePtInfoRead("db0", 0, n, ns)
    \/ \E ns \in {Offline, Online} : DoUpdatePtInfoNow("db0", 0, 1, ns)
    \/ \E pt \in PtInputs : DoUpdatePtVersion("db0", pt)
    \/ DoUpdateNodeStatus(1, StatusFailed, 0)

SpecVer == InitVer /\ [][NextVer]_vars

\* the version of pt ptId of db0 in catalog d
VerOf(d, ptId) == d.PtView["db0"][ptId + 1].Ver

\* the info of the step is the one of the pt-view that was read, and the
\* version of the pt was bumped since
CarriesOutdatedRead ==
    /\ snap # NoSnap
    /\ last'.arg.info = SnapPtInfo("db0", last'.id)
    /\ last'.id < Len(DBPtView(snap[1], "db0"))
    /\ last'.id < Len(DBPtView(data, "db0"))
    /\ VerOf(snap[1], last'.id) < VerOf(data, last'.id)

\* C35: an update_pt_info that carries a pt info read before the version of
\* the pt was bumped (by update_node_status or update_pt_version) is
\* rejected with PtChanged.
C35_OutdatedReadIsRejected ==
    [][(UpdatePtInfoStep /\ CarriesOutdatedRead) => last'.err = "PtChanged"]_vars

----------------------------------------------------------------------------
(* get_tier_of_shard_group *)

\* the tiers of util
Hot == 1
Warm == 2
Cold == 3

\* a policy that carries hot and warm durations
WithTierDurations(rpi, hot, warm) ==
    rpi @@ [HotDuration |-> hot, WarmDuration |-> warm]

\* the result of GetTierOfShardGroup: sgi is the position of the returned
\* group in rpi.ShardGroups, 0 for nil
RTier(d, sgi, tier, err) == [d |-> d, sgi |-> sgi, tier |-> tier, err |-> err]

\* a lookup whose duration checks are not guarded by "> 0"
GetTierOfShardGroupUnguarded(d, database, pol, timestamp, defaultTier, engineType, now) ==
    IF RetentionPolicyErr(d, database, pol) # OK
    THEN RTier(d, 0, 0, RetentionPolicyErr(d, database, pol))
    ELSE LET rpi == RP(d, database, pol)
             sgi == ShardGroupByTimestampAndEngineType(rpi, timestamp, engineType)
             endTime == Truncate(timestamp, rpi.ShardGroupDuration) + rpi.ShardGroupDuration
             tier1 == IF endTime + rpi.HotDuration < now THEN Warm ELSE defaultTier
             tier2 == IF endTime + rpi.WarmDuration < now THEN Cold ELSE tier1
         IN IF sgi # 0 THEN RTier(d, sgi, 0, OK) ELSE RTier(d, 0, tier2, OK)

\* now: the value of time.Now()
GetTierOfShardGroup(d, database, pol, timestamp, defaultTier, engineType, now) ==
    IF RetentionPolicyErr(d, database, pol) # OK
    THEN RTier(d, 0, 0, RetentionPolicyErr(d, database, pol))
    ELSE LET rpi == RP(d, database, pol)
             sgi == ShardGroupByTimestampAndEngineType(rpi, timestamp, engineType)
             endTime == Truncate(timestamp, rpi.ShardGroupDuration) + rpi.ShardGroupDuration
             tier1 == IF rpi.HotDuration > 0 /\ endTime + rpi.HotDuration < now
                      THEN Warm ELSE defaultTier
             tier2 == IF rpi.WarmDuration > 0 /\ endTime + rpi.WarmDuration < now
                      THEN Cold ELSE tier1
         IN IF sgi # 0 THEN RTier(d, sgi, 0, OK) ELSE RTier(d, 0, tier2, OK)

DoGetTierOfShardGroup(pol, timestamp, defaultTier, engineType, now) ==
    /\ Running
    /\ \E res \in {GetTierOfShardGroup(data, "db0", pol, timestamp, defaultTier,
                                       engineType, now)} :
          /\ data' = res.d
          /\ last' = [CmdArg("GetTierOfShardGroup", timestamp, pol,
                             [defaultTier |-> defaultTier, engineType |-> engineType,
                              now |-> now, sgi |-> res.sgi, tier |-> res.tier])
                        EXCEPT !.err = res.err, !.index = last.index + 1]
    /\ UNCHANGED <<snap, policy>>

TierDurations == {0, 1, 3}
Nows == 0..5

\* a one-node cluster holding db0 whose policy rp0 has shard groups of one
\* time unit and any hot and warm durations
InitTier ==
    /\ \E hot \in TierDurations, warm \in TierDurations :
          data = SetRP(ApplyCreateDatabase(WriteAvailableFirst, OneNode(FALSE), "db0",
                                           DefaultRp("rp0"), 1).d,
                       "db0", "rp0", WithTierDurations(DefaultRp("rp0"), hot, warm))
    /\ last = NoCmd
    /\ snap = NoSnap
    /\ policy = WriteAvailableFirst

NextTier ==
    \/ DoCreateMeasurement("db0", "m0", Nil, <<>>)
    \/ \E t \in Times : DoCreateShardGroup("db0", t, TSSTORE, <<"m0", 0>>)
    \/ \E id \in 1..MaxGroupID : DoDropShard(id)
    \/ \E pol \in {"rp0", "rp1"}, t \in Times, tier \in {Hot, Warm}, e \in EngineTypes,
          now \in Nows : DoGetTierOfShardGroup(pol, t, tier, e, now)

SpecTier == InitTier /\ [][NextTier]_vars

GetTierStep == last'.op = "GetTierOfShardGroup" /\ last'.index # last.index

\* the end of the shard group that would cover the timestamp of the step
ProspectiveEnd ==
    Truncate(last'.id, RP(data, "db0", "rp0").ShardGroupDuration)
        + RP(data, "db0", "rp0").ShardGroupDuration

\* no live shard group of the engine type of the step covers its timestamp
NoCoveringGroup ==
    \A i \in 1..Len(Groups(data)) :
        ~(/\ ~Deleted(Groups(data)[i])
          /\ Groups(data)[i].EngineType = last'.arg.engineType
          /\ Contains(Groups(data)[i], last'.id))

\* the shard group at the position the step returned covers the timestamp
ReturnsCoveringGroup ==
    /\ last'.arg.sgi \in 1..Len(Groups(data))
    /\ ~Deleted(Groups(data)[last'.arg.sgi])
    /\ Groups(data)[last'.arg.sgi].EngineType = last'.arg.engineType
    /\ Contains(Groups(data)[last'.arg.sgi], last'.id)
    /\ last'.arg.tier = 0

----------------------------------------------------------------------------
(* create_data_node with expand_shards_enable: growth of the groups *)

\* a create_data_node of a writer with an unknown address while
\* expand_shards_enable is set
ExpandStep ==
    /\ last'.op = "CreateDataNode" /\ last'.index # last.index
    /\ last'.name = NodeWriter
    /\ data.ExpandShardsEnable
    /\ (last'.id = 1 \/ last'.err = Panic)

\* shard group g of the policy grew from the shards os to the shards ns
ShardsExpanded(new, g, os, ns, ptNum) ==
    /\ Len(ns) = ptNum
    /\ Len(os) <= Len(ns)
    /\ SubSeq(ns, 1, Len(os)) = os
    /\ \A i \in (Len(os) + 1)..Len(ns) :
          /\ ns[i].Owners = <<i - 1>>
          /\ i > 1 /\ ns[i].Tier = ns[i - 1].Tier
          /\ ns[i].ID > data.MaxShardID
          /\ \E ig \in CoveringIndexGroups(new, g) :
                Len(ig.Indexes) >= i /\ ns[i].IndexID = ig.Indexes[i].ID
          /\ \A j \in (Len(os) + 1)..Len(ns) : j # i => ns[j].ID # ns[i].ID

\* an index group grew from the indexes oi to the indexes ni
IndexesExpanded(oi, ni, ptNum) ==
    /\ Len(ni) = ptNum
    /\ Len(oi) <= Len(ni)
    /\ SubSeq(ni, 1, Len(oi)) = oi
    /\ \A i \in (Len(oi) + 1)..Len(ni) :
          /\ ni[i].Owners = <<i - 1>>
          /\ ni[i].ID > data.MaxIndexID
          /\ \A j \in (Len(oi) + 1)..Len(ni) : j # i => ni[j].ID # ni[i].ID

\* C37: when create_data_node adds a writer while expand_shards_enable is
\* set, every index group and every shard group of a hash-sharded policy
\* ends with exactly the new effective_pt_num entries: appended index i
\* owns pt i, appended shard i owns pt i, references the index of pt i of a
\* covering index group and has the tier of shard i - 1; earlier entries are
\* unchanged, a range-sharded policy is untouched, appended ids are fresh.
C37_ExpandGroupsResult ==
    [][ExpandStep =>
         LET old == RP(data, "db0", "rp0")
             new == RP(data', "db0", "rp0")
             ptNum == GetEffectivePtNum(data', "db0")
         IN /\ last'.err = OK
            /\ shardingType(old) = RANGE => new = old
            /\ shardingType(old) # RANGE =>
                  /\ Len(new.ShardGroups) = Len(old.ShardGroups)
                  /\ \A g \in 1..Len(old.ShardGroups) :
                        /\ [new.ShardGroups[g] EXCEPT !.Shards = old.ShardGroups[g].Shards]
                              = old.ShardGroups[g]
                        /\ ShardsExpanded(new, new.ShardGroups[g],
                                          old.ShardGroups[g].Shards,
                                          new.ShardGroups[g].Shards, ptNum)
                  /\ \A k \in 1..Len(old.IndexGroups) :
                        \E n \in 1..Len(new.IndexGroups) :
                           /\ [new.IndexGroups[n] EXCEPT !.Indexes = old.IndexGroups[k].Indexes]
                                 = old.IndexGroups[k]
                           /\ IndexesExpanded(old.IndexGroups[k].Indexes,
                                              new.IndexGroups[n].Indexes, ptNum)]_vars

----------------------------------------------------------------------------
(* create_measurement: re-creation and versions *)

CreateMeasurementStep == last'.op = "CreateMeasurement" /\ last'.index # last.index

\* the keys of the live measurements of origin name mst in policy rpi
LiveKeys(rpi, mst) ==
    {k \in DOMAIN rpi.Measurements : k[1] = mst /\ ~rpi.Measurements[k].MarkDeleted}

\* the shard key a create_measurement supplies (type shardKeyType, Nil for
\* none) equals the latest of the stored shard keys, or both are absent
SameShardKey(keys, shardKeyType) ==
    IF shardKeyType = Nil THEN Len(keys) = 0
    ELSE /\ Len(keys) > 0
         /\ keys[Len(keys)].Type = shardKeyType
         /\ keys[Len(keys)].ShardKey = <<>>

\* C38: create_measurement for an origin name with a live measurement
\* returns Ok and changes nothing when the supplied shard key equals the
\* latest stored one or both are absent, and fails with MeasurementExists
\* and changes nothing when it differs; without a live measurement a
\* successful create stores version 0 first and (previous version + 1) mod
\* 65536 after a mark-delete; at most one measurement per origin name is
\* live.
C38_CreateMeasurementIdempotent ==
    [][\A m \in MstNames, k \in ShardKeyTypes, cs \in ColStoreInfos :
         (CreateMeasurementStep /\ last'.arg = m
            /\ DoCreateMeasurementCol("db0", m, k, cs)) =>
         LET rp == RP(data, "db0", "rp0")
             new == RP(data', "db0", "rp0")
             key == MeasurementKey(rp, m)
             live == key # NoMst /\ ~rp.Measurements[key].MarkDeleted
         IN /\ (live /\ SameShardKey(rp.Measurements[key].ShardKeys, k))
                  => last'.err = OK /\ data' = data
            /\ (live /\ ~SameShardKey(rp.Measurements[key].ShardKeys, k))
                  => last'.err = "ErrMeasurementExists" /\ data' = data
            /\ (~live /\ last'.err = OK) =>
                  /\ MeasurementKey(new, m)
                        = <<m, IF Has(rp.MstVersions, m)
                               THEN (rp.MstVersions[m].Version + 1) % 65536 ELSE 0>>
                  /\ ~new.Measurements[MeasurementKey(new, m)].MarkDeleted
            /\ \A n \in MstNames : Cardinality(LiveKeys(new, n)) <= 1]_vars

----------------------------------------------------------------------------
(* alter_shard_key: the shard-key history *)

AlterShardKeyStep == last'.op = "AlterShardKey" /\ last'.index # last.index

\* the effective shard-group ids along a shard-key history grow strictly
Increasing(keys) ==
    \A i \in 1..Len(keys) : \A j \in 1..Len(keys) :
        i < j => keys[i].ShardGroup < keys[j].ShardGroup

\* the shard-key history after an alter_shard_key that stores the key ski
AlteredKeys(rp, keys, ski) ==
    IF \E g \in 1..Len(rp.ShardGroups) : rp.ShardGroups[g].ID >= keys[Len(keys)].ShardGroup
    THEN Append(keys, ski)
    ELSE [keys EXCEPT ![Len(keys)] = ski]

\* what C39 requires of an alter_shard_key of the live measurement key of
\* policy rp that supplies a key of type skiType and columns skiKey, the
\* measurement's latest key having type latestType and columns latestKey
AlterShardKeyResult(rp, key, keys, skiType, skiKey, latestType, latestKey) ==
    /\ skiType # latestType =>
          last'.err = "ErrShardingTypeNotEqual" /\ data' = data
    /\ (skiType = latestType /\ skiKey = latestKey) =>
          last'.err = OK /\ data' = data
    /\ (skiType = latestType /\ skiKey # latestKey /\ Len(keys) > 0) =>
          /\ last'.err = OK
          /\ data' = SetRP(data, "db0", "rp0",
                 [rp EXCEPT !.Measurements[key].ShardKeys =
                     AlteredKeys(rp, keys,
                                 [Type |-> skiType, ShardKey |-> skiKey,
                                  ShardGroup |-> data.MaxShardGroupID + 1])])
    /\ LET after == RP(data', "db0", "rp0").Measurements[key].ShardKeys
       IN /\ \A i \in 1..Len(after) : after[i].Type = latestType
          /\ Increasing(keys) => Increasing(after)

\* C39: alter_shard_key of a live measurement fails with
\* ShardingTypeNotEqual and changes nothing for a key of another type, is a
\* no-op for an equal key, and otherwise stores the new key with effective
\* shard-group id MaxShardGroupID + 1, appended when the policy has a shard
\* group with an id at or above the effective shard-group id of the latest
\* key and over the latest key otherwise; the types along the history stay
\* equal and its effective shard-group ids stay strictly increasing.
C39_AlterShardKeyHistory ==
    [][\A m \in MstNames, sk \in AlterKeys :
         (AlterShardKeyStep /\ last'.arg = m /\ DoAlterShardKey("db0", m, sk)) =>
         LET rp == RP(data, "db0", "rp0")
             key == MeasurementKey(rp, m)
             live == key # NoMst /\ ~rp.Measurements[key].MarkDeleted
             keys == IF live THEN rp.Measurements[key].ShardKeys ELSE <<>>
         IN live =>
              AlterShardKeyResult(rp, key, keys,
                  IF sk = NilShardKey THEN "" ELSE sk.Type,
                  IF sk = NilShardKey THEN <<>> ELSE sk.ShardKey,
                  IF Len(keys) = 0 THEN "" ELSE keys[Len(keys)].Type,
                  IF Len(keys) = 0 THEN <<>> ELSE keys[Len(keys)].ShardKey)]_vars

----------------------------------------------------------------------------
(* Migrate events and their op ids *)

CreateEventStep == last'.op = "CreateMigrateEvent" /\ last'.index # last.index

UpdateEventStep == last'.op = "UpdateMigrateEvent" /\ last'.index # last.index

\* the op ids of the stored events
OpIds(d) == {d.MigrateEvents[id].opId : id \in DOMAIN d.MigrateEvents}

\* the stored event and the event of a command agree on what
\* create_migrate_event compares
SameEvent(stored, e) ==
    /\ stored.src = e.src /\ stored.dest = e.dest
    /\ stored.currState = e.currState /\ stored.preState = e.preState

\* what C40 requires of a create_migrate_event with event e
CreateEventResult(e) ==
    LET id == EventId(e.db, e.ptId)
    IN IF Has(data.MigrateEvents, id)
       THEN /\ data' = data
            /\ last'.err = IF SameEvent(data.MigrateEvents[id], e)
                           THEN OK ELSE "PtEventIsAlreadyExist"
       ELSE IF last'.err = OK
       THEN /\ data'.MigrateEvents = MapPut(data.MigrateEvents, id,
                                            [e EXCEPT !.opId = data.MaxEventOpId + 1])
            /\ data'.MaxEventOpId = data.MaxEventOpId + 1
            /\ \A o \in OpIds(data) : o < data'.MigrateEvents[id].opId
       ELSE data' = data

\* what C40 requires of an update_migrate_event with event e
UpdateEventResult(e) ==
    LET id == EventId(e.db, e.ptId)
    IN IF Has(data.MigrateEvents, id) /\ data.MigrateEvents[id].opId = e.opId
       THEN /\ last'.err = OK
            /\ data' = [data EXCEPT !.MigrateEvents[id].currState = e.currState,
                                    !.MigrateEvents[id].preState = e.preState]
       ELSE last'.err = "EventNotFound" /\ data' = data

\* C40: the op id counter never decreases and bounds every stored op id, so
\* a newly stored event gets an op id above every op id issued before;
\* create_migrate_event for a stored id returns Ok without a new op id when
\* src, dest, cur_state and pre_state match and PtEventIsAlreadyExist
\* otherwise, changing nothing; update_migrate_event changes (pre_state,
\* cur_state) only when the supplied op id is the stored one and otherwise
\* fails with EventNotFound and changes nothing, as for the old op id after
\* remove_event_info and a re-create.
C40_EventsGuardedByOpId ==
    [][/\ data'.MaxEventOpId >= data.MaxEventOpId
       /\ \A o \in OpIds(data') : o <= data'.MaxEventOpId
       /\ \A a, b \in DOMAIN data'.MigrateEvents :
             a # b => data'.MigrateEvents[a].opId # data'.MigrateEvents[b].opId
       /\ \A pt \in EventPts, st \in {0, 1} :
             (CreateEventStep /\ last'.id = pt /\ DoCreateMigrateEvent("db0", pt, st))
                => CreateEventResult(MigrateEvent("db0", pt, st))
       /\ \A pt \in EventPts, op \in 1..2 :
             (UpdateEventStep /\ last'.id = pt /\ DoUpdateMigrateEvent("db0", pt, op))
                => UpdateEventResult([MigrateEvent("db0", pt, 1) EXCEPT !.opId = op])]_vars

\* an update of the only stored event was refused: the event has op id 2,
\* the event with op id 1 was removed
C40_Witness ==
    /\ last.op = "UpdateMigrateEvent"
    /\ last.err = "EventNotFound"
    /\ DOMAIN data.MigrateEvents = {EventId("db0", last.id)}
    /\ data.MigrateEvents[EventId("db0", last.id)].opId = 2
    /\ data.MaxEventOpId = 2

====
